---- MODULE Spec2Model ----
(***************************************************************************)
(* A model of qsim (dylanljones/qsim): the parameter store and the         *)
(* instruction model of qsim/core/instruction.py, the circuit (text        *)
(* format, add_qubit, append, run_shot) of qsim/core/circuit.py, the       *)
(* run_shot of qsim2/circuit.py, the state-vector engine of                *)
(* qsim/core/backends.py, the gate registry with its custom entries and    *)
(* the gate objects of qsim/objects.py.                                    *)
(*                                                                         *)
(* Python values that are "None, a scalar or a list" are tagged records    *)
(*   [tag |-> "none" | "scalar" | "list", v |-> <<...>>].                  *)
(* Python list positions are 0-based; TLA+ sequences are 1-based, so the   *)
(* pool position p is the element params[p + 1].                           *)
(*                                                                         *)
(* A vector of real coefficients is a sequence of integers v with a        *)
(* common squared denominator d: coefficient i is v[i] / sqrt(d).  The     *)
(* engine's vector is the pair sv.amp, sv.den; a plain list of numbers     *)
(* has d = 1.  The squared norm is SumSq(v) / d, and the vector divided    *)
(* by its own norm is v with d = SumSq(v).                                 *)
(***************************************************************************)
EXTENDS Integers, Sequences, FiniteSets, TLC

VARIABLES
    indices,    \* ParameterMap.indices: one entry per call of ParameterMap.add
    params,     \* ParameterMap.params: the value pool
    INDEX,      \* Instruction.INDEX: the class-level creation counter
    insts,      \* every Instruction object whose constructor returned
    last,       \* the last call made and how it ended
    circ,       \* a Circuit: n_qubits, n_clbits, instructions
    text,       \* the string returned by the last Circuit.to_string (text.s)
    parsed,     \* the Circuit returned by the last Circuit.from_string
    sv,         \* a StateVector: n_qubits, n, qubits, basis, amp, den, snapshots
    GATE_DICT   \* the gate registry shared by Gate and StateVector

vars == <<indices, params, INDEX, insts, last, circ, text, parsed, sv, GATE_DICT>>

pmvars == <<indices, params, INDEX, insts, GATE_DICT>>
rtvars == <<circ, text, parsed>>

\* ------------------------------------------------------------------ bounds

MaxIndex == 2       \* constructor calls and recorded entries explored: Instruction.INDEX, len(indices) <= MaxIndex
MaxPool == 3        \* longest pool explored: len(params) <= MaxPool

\* ------------------------------------------------------------ Python values

NoneV == [tag |-> "none", v |-> <<>>]
Scalar(x) == [tag |-> "scalar", v |-> <<x>>]
List(s) == [tag |-> "list", v |-> s]

\* an array v / sqrt(d)
Vec(v, d) == [tag |-> "list", v |-> v, d |-> d]

IsNone(x) == x.tag = "none"

\* the squared denominator of an array argument: 1 for a plain list
Den(x) == IF "d" \in DOMAIN x THEN x.d ELSE 1

Min(a, b) == IF a < b THEN a ELSE b

\* [x] * n
Repeat(x, n) == [i \in 1..n |-> x]

\* --------------------------------------------------------------- ParameterMap

\* mutant: set starts a new map, dropping the recorded entries
ParameterMap_set_resets(pm, args) == [indices |-> <<>>, params |-> args]

\* ParameterMap.set(args): self.params = list(args)
ParameterMap_set(pm, args) == [pm EXCEPT !.params = args]

\* ParameterMap.init(*args) with one argument: an int n gives n zeros, a
\* sequence is taken as it is; then set.
ParameterMap_init(pm, arg) ==
    ParameterMap_set(pm, IF arg.tag = "scalar" THEN Repeat(0, arg.v[1]) ELSE arg.v)

\* ParameterMap.__setitem__(key, value): params[key] = value; IndexError when
\* key is no position of the pool.
ParameterMap_setitem(pm, key, value) ==
    IF key < Len(pm.params)
    THEN [pm |-> [pm EXCEPT !.params[key + 1] = value], raised |-> FALSE]
    ELSE [pm |-> pm, raised |-> TRUE]

\* ParameterMap.add_param(value)
ParameterMap_add_param(pm, value) == [pm EXCEPT !.params = Append(@, value)]

\* ParameterMap.link_param(idx): the entry is idx itself, list or scalar
ParameterMap_link_param(pm, idx) == [pm EXCEPT !.indices = Append(@, idx)]

\* mutant: the position is taken after the value was appended
ParameterMap_add_arg_late(pm, args, idx) ==
    LET a == args.v
        n == Len(a)
        raised == ~IsNone(idx) /\ (idx.tag = "scalar" \/ Len(idx.v) < n)
        entry == [i \in 1..n |-> IF IsNone(idx) THEN Len(pm.params) + i ELSE idx.v[i]]
    IN  [pm |-> [indices |-> IF raised THEN pm.indices
                             ELSE Append(pm.indices, List(entry)),
                 params |-> IF raised THEN pm.params ELSE pm.params \o a],
         raised |-> raised]

\* mutant: the pool is replaced by the new values instead of extended
ParameterMap_add_arg_replaces(pm, args, idx) ==
    LET a == args.v
        n == Len(a)
        raised == ~IsNone(idx) /\ (idx.tag = "scalar" \/ Len(idx.v) < n)
        entry == [i \in 1..n |-> IF IsNone(idx) THEN i - 1 ELSE idx.v[i]]
    IN  [pm |-> [indices |-> IF raised THEN pm.indices
                             ELSE Append(pm.indices, List(entry)),
                 params |-> IF raised THEN pm.params ELSE a],
         raised |-> raised]

\* ParameterMap.add_arg(args, idx): a scalar is wrapped into a list; iteration
\* i records len(params) (idx None) or idx[i], then appends the value. idx[i]
\* raises when idx is a scalar (TypeError) or too short (IndexError): the
\* values of the iterations before it are already in the pool and no entry
\* is recorded.
ParameterMap_add_arg(pm, args, idx) ==
    LET a == args.v
        n == Len(a)
        fail == IF idx.tag = "none" THEN n
                ELSE IF idx.tag = "scalar" THEN 0
                ELSE Min(Len(idx.v), n)
        raised == fail < n
        entry == [i \in 1..n |->
                    IF idx.tag = "none" THEN Len(pm.params) + (i - 1) ELSE idx.v[i]]
    IN  [pm |-> [indices |-> IF raised THEN pm.indices
                             ELSE Append(pm.indices, List(entry)),
                 params |-> pm.params \o SubSeq(a, 1, fail)],
         raised |-> raised]

\* ParameterMap.add_empty()
ParameterMap_add_empty(pm) == [pm EXCEPT !.indices = Append(@, NoneV)]

\* ParameterMap.add(arg, idx)
ParameterMap_add(pm, arg, idx) ==
    IF ~IsNone(arg) THEN ParameterMap_add_arg(pm, arg, idx)
    ELSE IF ~IsNone(idx) THEN [pm |-> ParameterMap_link_param(pm, idx), raised |-> FALSE]
    ELSE [pm |-> ParameterMap_add_empty(pm), raised |-> FALSE]

\* ParameterMap.get(i): IndexError when i is no entry or a recorded position
\* is outside the pool, TypeError when the entry is a scalar.
ParameterMap_get(pm, i) ==
    IF i >= Len(pm.indices) THEN [raised |-> TRUE, val |-> NoneV]
    ELSE LET e == pm.indices[i + 1] IN
         IF e.tag = "none" THEN [raised |-> FALSE, val |-> NoneV]
         ELSE IF e.tag = "scalar" THEN [raised |-> TRUE, val |-> NoneV]
         ELSE IF \E k \in 1..Len(e.v) : e.v[k] >= Len(pm.params)
              THEN [raised |-> TRUE, val |-> NoneV]
              ELSE [raised |-> FALSE,
                    val |-> List([k \in 1..Len(e.v) |-> pm.params[e.v[k] + 1]])]

\* the singleton ParameterMap.instance() as a record
pmap == [indices |-> indices, params |-> params]

\* ---------------------------------------------------------------- Instruction

\* utils.to_list: a value that is no list becomes a one-element list
to_list(x) == IF x.tag = "scalar" THEN List(x.v) ELSE x

\* Instruction.__init__ followed by Instruction._init, on the class state
\* st = [pm, INDEX]. The counter is taken and incremented first; then
\* pmap.add(arg, argidx) runs and may raise, in which case no object is
\* returned but the counter (and any value add_arg had appended) stays.
\* own is a history field: the entry this constructor's add recorded.
Instruction_init(TYPE, name, qubits, con, clbits, n, arg, argidx, trigger, st) ==
    LET idx == st.INDEX
        r == ParameterMap_add(st.pm, arg, argidx)
        inst == [idx |-> idx, TYPE |-> TYPE, name |-> name, size |-> n,
                 qubits |-> IF IsNone(qubits) THEN NoneV ELSE to_list(qubits),
                 con |-> IF IsNone(con) THEN NoneV ELSE to_list(con),
                 clbits |-> IF IsNone(clbits) THEN NoneV ELSE to_list(clbits),
                 con_trigger |-> trigger, basis |-> "",
                 own |-> IF r.raised THEN NoneV
                         ELSE r.pm.indices[Len(r.pm.indices)]]
    IN  [raised |-> r.raised, inst |-> inst, pm |-> r.pm, INDEX |-> idx + 1,
         add_arg |-> arg, add_idx |-> argidx]

\* Measurement.__init__(name, qubits, clbits, basis): clbits defaults to qubits
Measurement_init(name, qubits, clbits, basis, st) ==
    LET r == Instruction_init("Measurement", name, qubits, NoneV,
                              IF IsNone(clbits) THEN qubits ELSE clbits,
                              1, NoneV, NoneV, 1, st)
    IN  [r EXCEPT !.inst.basis = basis]

\* Gate.__init__(name, qubits, con, arg, argidx, n, trigger): when qubits is a
\* list a scalar arg / argidx is repeated once per qubit; after the base
\* constructor the name gets one "c" per control qubit.
Gate_init(name, qubits, con, arg, argidx, n, trigger, st) ==
    LET isList == qubits.tag = "list"
        arg1 == IF isList /\ arg.tag = "scalar"
                THEN List(Repeat(arg.v[1], Len(qubits.v))) ELSE arg
        argidx1 == IF isList /\ argidx.tag = "scalar"
                   THEN List(Repeat(argidx.v[1], Len(qubits.v))) ELSE argidx
        r == Instruction_init("Gate", name, qubits, con, NoneV, n, arg1, argidx1,
                              trigger, st)
    IN  IF IsNone(con) THEN r
        ELSE [r EXCEPT !.inst.name = Repeat("c", Len(r.inst.con.v)) \o name]

\* Gate.rx(qubit, arg=0, argidx=None, con=None, trigger=1); ry and rz differ in
\* the name only. A caller that leaves arg out passes NoneV here and gets the
\* default 0.
Gate_rx(qubit, arg, argidx, con, st) ==
    Gate_init(<<"R", "x">>, qubit, con, IF IsNone(arg) THEN Scalar(0) ELSE arg,
              argidx, 1, 1, st)

\* Instruction.argidx: pmap.indices[self.idx], IndexError when there is none
Instruction_argidx(inst, pm) ==
    IF inst.idx < Len(pm.indices)
    THEN [raised |-> FALSE, val |-> pm.indices[inst.idx + 1]]
    ELSE [raised |-> TRUE, val |-> NoneV]

\* Instruction.args: pmap.get(self.idx)
Instruction_args(inst, pm) == ParameterMap_get(pm, inst.idx)

\* the class-level state the constructors work on
cls == [pm |-> pmap, INDEX |-> INDEX]

\* ------------------------------------------------------------------- strings
\* A Python str is the sequence of its characters.

Digits == <<"0", "1", "2", "3", "4", "5", "6", "7", "8", "9">>

IsDigit(c) == \E d \in 1..10 : Digits[d] = c

DigitValue(c) == (CHOOSE d \in 1..10 : Digits[d] = c) - 1

\* str(n) for an int n >= 0
RECURSIVE IntToStr(_)
IntToStr(n) == IF n < 10 THEN <<Digits[n + 1]>>
               ELSE IntToStr(n \div 10) \o <<Digits[(n % 10) + 1]>>

\* int(s) for a string of digits
RECURSIVE StrToInt(_)
StrToInt(s) == IF Len(s) = 0 THEN 0
               ELSE 10 * StrToInt(SubSeq(s, 1, Len(s) - 1)) + DigitValue(s[Len(s)])

\* sep.join(parts)
RECURSIVE Join(_, _)
Join(parts, sep) ==
    IF Len(parts) = 0 THEN <<>>
    ELSE IF Len(parts) = 1 THEN parts[1]
    ELSE parts[1] \o sep \o Join(Tail(parts), sep)

\* the first position >= i at which sep occurs in s, or 0
RECURSIVE Find(_, _, _)
Find(s, sep, i) ==
    IF i + Len(sep) - 1 > Len(s) THEN 0
    ELSE IF SubSeq(s, i, i + Len(sep) - 1) = sep THEN i
    ELSE Find(s, sep, i + 1)

\* s.split(sep)
RECURSIVE Split(_, _)
Split(s, sep) ==
    LET j == Find(s, sep, 1) IN
    IF j = 0 THEN <<s>>
    ELSE <<SubSeq(s, 1, j - 1)>> \o Split(SubSeq(s, j + Len(sep), Len(s)), sep)

\* s.splitlines(): no line for an empty string or after a final newline
splitlines(s) ==
    LET parts == Split(s, <<"\n">>) IN
    IF Len(parts[Len(parts)]) = 0 THEN SubSeq(parts, 1, Len(parts) - 1) ELSE parts

LowerChar(c) ==
    CASE c = "A" -> "a"
      [] c = "B" -> "b"
      [] c = "C" -> "c"
      [] c = "D" -> "d"
      [] c = "E" -> "e"
      [] c = "F" -> "f"
      [] c = "G" -> "g"
      [] c = "H" -> "h"
      [] c = "I" -> "i"
      [] c = "J" -> "j"
      [] c = "K" -> "k"
      [] c = "L" -> "l"
      [] c = "M" -> "m"
      [] c = "N" -> "n"
      [] c = "O" -> "o"
      [] c = "P" -> "p"
      [] c = "Q" -> "q"
      [] c = "R" -> "r"
      [] c = "S" -> "s"
      [] c = "T" -> "t"
      [] c = "U" -> "u"
      [] c = "V" -> "v"
      [] c = "W" -> "w"
      [] c = "X" -> "x"
      [] c = "Y" -> "y"
      [] c = "Z" -> "z"
      [] OTHER -> c

\* s.lower()
Lower(s) == [i \in 1..Len(s) |-> LowerChar(s[i])]

STR_None == <<"N", "o", "n", "e">>
STR_Sep == <<",", " ">>
DefaultDelim == <<";", " ">>

\* str(l) for a list of ints
ListToStr(l) ==
    <<"[">> \o Join([i \in 1..Len(l) |-> IntToStr(l[i])], STR_Sep) \o <<"]">>

\* f"{val}" for None, an int or a list of ints
ValToStr(x) ==
    IF x.tag = "none" THEN STR_None
    ELSE IF x.tag = "scalar" THEN IntToStr(x.v[1])
    ELSE ListToStr(x.v)

\* utils.str_to_list(s, dtype): "None" gives None, otherwise the numbers of
\* the string in order, converted by dtype
RECURSIVE Numbers(_, _)
Numbers(s, cur) ==
    IF Len(s) = 0 THEN (IF Len(cur) = 0 THEN <<>> ELSE <<StrToInt(cur)>>)
    ELSE IF IsDigit(s[1]) THEN Numbers(Tail(s), Append(cur, s[1]))
    ELSE (IF Len(cur) = 0 THEN <<>> ELSE <<StrToInt(cur)>>) \o Numbers(Tail(s), <<>>)

str_to_list(s) == IF s = STR_None THEN NoneV ELSE List(Numbers(s, <<>>))

\* ------------------------------------------------- instruction text format

\* A Qubit / Clbit is its index; NoBit is the None that get_bit returns when
\* no bit has the index.
NoBit == -1

\* Instruction.qu_indices / con_indices / cl_indices: None for None, else the
\* index of every bit; AttributeError when a bit is None.
BitIndices(bits) ==
    IF IsNone(bits) THEN [raised |-> FALSE, val |-> NoneV]
    ELSE IF \E k \in 1..Len(bits.v) : bits.v[k] = NoBit
         THEN [raised |-> TRUE, val |-> NoneV]
         ELSE [raised |-> FALSE, val |-> bits]

Instruction_qu_indices(inst) == BitIndices(inst.qubits)
Instruction_con_indices(inst) == BitIndices(inst.con)
Instruction_cl_indices(inst) == BitIndices(inst.clbits)

\* Instruction.to_dict: the items in order, as <<key, value>>; name is a str,
\* the others None, an int or a list.
Instruction_to_dict(inst, pm) ==
    LET qu == Instruction_qu_indices(inst)
        co == Instruction_con_indices(inst)
        cl == Instruction_cl_indices(inst)
        ar == Instruction_args(inst, pm)
        ai == Instruction_argidx(inst, pm)
    IN  [raised |-> qu.raised \/ co.raised \/ cl.raised \/ ar.raised \/ ai.raised,
         items |-> << <<<<"i", "d", "x">>, IntToStr(inst.idx)>>,
                      <<<<"n", "a", "m", "e">>, inst.name>>,
                      <<<<"q", "b", "i", "t", "s">>, ValToStr(qu.val)>>,
                      <<<<"c", "o", "n">>, ValToStr(co.val)>>,
                      <<<<"c", "b", "i", "t", "s">>, ValToStr(cl.val)>>,
                      <<<<"a", "r", "g">>, ValToStr(ar.val)>>,
                      <<<<"a", "r", "g", "i", "d", "x">>, ValToStr(ai.val)>> >>]

\* Instruction.to_string(delim): f"{key}={val}{delim}" for every item
Instruction_to_string(inst, pm, delim) ==
    LET d == Instruction_to_dict(inst, pm)
        field(i) == d.items[i][1] \o <<"=">> \o d.items[i][2] \o delim
    IN  [raised |-> d.raised,
         s |-> IF d.raised THEN <<>>
               ELSE Join([i \in 1..Len(d.items) |-> field(i)], <<>>)]

\* get_bit(bit_list, idx): the first bit with that index, else None
get_bit(bit_list, idx) ==
    IF \E k \in 1..Len(bit_list) : bit_list[k] = idx THEN idx ELSE NoBit

\* [get_bit(bit_list, idx) for idx in indices], None when indices is None
GetBits(bit_list, idxs) ==
    IF IsNone(idxs) THEN NoneV
    ELSE List([k \in 1..Len(idxs.v) |-> get_bit(bit_list, idxs.v[k])])

\* the dict built from the fields of a line: the value of the last field with
\* the key
HasKey(fields, key) == \E i \in 1..Len(fields) : fields[i][1] = key

Lookup(fields, key) ==
    LET i == CHOOSE i \in 1..Len(fields) :
                 /\ fields[i][1] = key
                 /\ \A j \in (i + 1)..Len(fields) : fields[j][1] # key
    IN  fields[i][2]

\* Instruction.from_string(string, qubit_list, clbit_list, delim) on the class
\* state st. The line is split at delim and the last piece dropped; a piece
\* that is not key=value raises ValueError and a missing key KeyError, before
\* anything is constructed. The classical bits are looked up from the "qbits"
\* field.
Instruction_from_string(string, qubit_list, clbit_list, delim, st) ==
    LET pieces == Split(string, delim)
        kept == SubSeq(pieces, 1, Len(pieces) - 1)
        fields == [i \in 1..Len(kept) |-> Split(kept[i], <<"=">>)]
        bad == \/ \E i \in 1..Len(fields) : Len(fields[i]) # 2
               \/ \E key \in {<<"n", "a", "m", "e">>, <<"q", "b", "i", "t", "s">>, <<"c", "o", "n">>, <<"a", "r", "g">>, <<"a", "r", "g", "i", "d", "x">>} :
                      ~HasKey(fields, key)
        name == Lookup(fields, <<"n", "a", "m", "e">>)
        qubits == GetBits(qubit_list, str_to_list(Lookup(fields, <<"q", "b", "i", "t", "s">>)))
        con == GetBits(qubit_list, str_to_list(Lookup(fields, <<"c", "o", "n">>)))
        clbits == GetBits(clbit_list, str_to_list(Lookup(fields, <<"q", "b", "i", "t", "s">>)))
        arg == str_to_list(Lookup(fields, <<"a", "r", "g">>))
        argidx == str_to_list(Lookup(fields, <<"a", "r", "g", "i", "d", "x">>))
    IN  IF bad
        THEN [raised |-> TRUE, inst |-> NoneV, pm |-> st.pm, INDEX |-> st.INDEX,
              add_arg |-> NoneV, add_idx |-> NoneV]
        ELSE IF Lower(name) = <<"m">>
             THEN Measurement_init(name, qubits, clbits, "", st)
             ELSE Gate_init(name, qubits, con, arg, argidx, 1, 1, st)

\* ---------------------------------------------------------------- StateVector
\* An amplitude vector is the sequence of its coefficients (integers here).
\* A StateVector is the record of its fields.

RECURSIVE Pow2(_)
Pow2(k) == IF k = 0 THEN 1 ELSE 2 * Pow2(k - 1)

RECURSIVE SumSq(_)
SumSq(v) == IF Len(v) = 0 THEN 0 ELSE v[1] * v[1] + SumSq(Tail(v))

\* np.round(la.norm(state), decimals=10) == 1.0 for the vector v / sqrt(d):
\* the norm is within 1e-10 of 1 exactly when the squares sum to d (d = 0 is
\* the vector of NaNs a division by a zero norm leaves)
NormIsOne(v, d) == d > 0 /\ SumSq(v) = d

\* kron([ZERO] * n): the state |0...0>
\* the bit of qubit q in the basis state number i of n qubits (qubit 0 is the
\* most significant bit)
BitOf(i, q, n) == (i \div Pow2(n - 1 - q)) % 2

ZeroState(n) == [i \in 1..Pow2(n) |-> IF i = 1 THEN 1 ELSE 0]

\* Basis(n), which the engine keeps for display only, is n
Basis(n) == n

\* StateVector.set(amp): length and norm are tested on a local copy; self.amp
\* is assigned last, divided by the norm (which the test has found to be 1)
StateVector_set(self, amp) ==
    LET state == IF IsNone(amp) THEN ZeroState(self.n_qubits) ELSE amp.v IN
    IF Len(state) # self.n THEN [raised |-> TRUE, self |-> self]
    ELSE IF ~NormIsOne(state, Den(amp)) THEN [raised |-> TRUE, self |-> self]
    ELSE [raised |-> FALSE,
          self |-> [self EXCEPT !.amp = state, !.den = SumSq(state)]]

\* StateVector.set_qubits(qubits, basis, amp): qubits, n_qubits, basis and n
\* are assigned, then set(amp) runs
StateVector_set_qubits(self, qubits, basis, amp) ==
    LET s1 == [self EXCEPT !.qubits = qubits,
                           !.n_qubits = Len(qubits),
                           !.basis = IF IsNone(basis) THEN Basis(Len(qubits))
                                     ELSE basis.v[1],
                           !.n = Pow2(Len(qubits))]
    IN  StateVector_set(s1, amp)

\* StateVector.__init__(qubits, basis, amp). self.qubits is a reference to the
\* list that was passed: the field qureg tells whether that list is the list
\* of the circuit's qubit register (Holding records it).
StateVector_init(qubits, basis, amp) ==
    StateVector_set_qubits([n_qubits |-> 0, n |-> 0, qubits |-> <<>>, basis |-> 0,
                            amp |-> <<>>, den |-> 1, snapshots |-> <<>>,
                            qureg |-> FALSE],
                           qubits, basis, amp)

\* the outcome r of set_qubits or of the constructor, when the list passed was
\* the register's (reg) or another one: self.qubits = qubits is the first
\* assignment, made whether or not set(amp) raises afterwards
Holding(r, reg) == [r EXCEPT !.self.qureg = reg]

\* StateVector.load_state(file): self.amp = np.load(file)
StateVector_load_state(self, arr) == [self EXCEPT !.amp = arr.v, !.den = Den(arr)]

\* StateVector.save_snapshot(): a new StateVector built from the current
\* qubits, basis and amp is appended; its constructor validates amp and may
\* raise
StateVector_save_snapshot(self) ==
    LET r == Holding(StateVector_init(self.qubits, Scalar(self.basis),
                                      Vec(self.amp, self.den)), self.qureg) IN
    IF r.raised THEN [raised |-> TRUE, self |-> self]
    ELSE [raised |-> FALSE,
          self |-> [self EXCEPT !.snapshots = Append(@, r.self)]]

\* np.dot(u, amp) for a matrix u given as the sequence of its rows
RECURSIVE Dot(_, _)
Dot(a, b) == IF Len(a) = 0 THEN 0 ELSE a[1] * b[1] + Dot(Tail(a), Tail(b))

MatVec(u, v) == [i \in 1..Len(u) |-> Dot(u[i], v)]

\* StateVector.apply_unitary(u): self.amp = np.dot(u, self.amp); np.dot raises
\* ValueError when the shapes do not match
StateVector_apply_unitary(self, u) ==
    IF \E i \in 1..Len(u) : Len(u[i]) # Len(self.amp)
    THEN [raised |-> TRUE, self |-> self]
    ELSE [raised |-> FALSE, self |-> [self EXCEPT !.amp = MatVec(u, self.amp)]]

\* StateVector.__setitem__(item, value): self.amp[item] = value, in place and
\* unchecked; numpy raises IndexError for a position past the end.  The value
\* w is stored in the vector's own unit, as w * sqrt(den).
Root(d) == CHOOSE r \in 0..d : r * r = d

StateVector_setitem(self, item, value) ==
    IF item >= Len(self.amp) THEN [raised |-> TRUE, self |-> self]
    ELSE [raised |-> FALSE,
          self |-> [self EXCEPT !.amp[item + 1] = value * Root(self.den)]]

\* kron(a, b) of two vectors
KronVec(a, b) ==
    [i \in 1..(Len(a) * Len(b)) |->
        a[((i - 1) \div Len(b)) + 1] * b[((i - 1) % Len(b)) + 1]]

\* kron(*states) of single-qubit states, as an array
RECURSIVE KronStates(_)
KronStates(states) ==
    IF Len(states) = 1 THEN Vec(states[1].v, Den(states[1]))
    ELSE LET rest == KronStates(Tail(states)) IN
         Vec(KronVec(states[1].v, rest.v), Den(states[1]) * rest.d)

\* StateVector.prepare(*states): amp = kron(*states); self.set(amp)
StateVector_prepare(self, states) == StateVector_set(self, KronStates(states))

\* ---------------------------------------------------------------- measurement

Eye2 == <<<<1, 0>>, <<0, 1>>>>

Transpose(m) == [j \in 1..Len(m[1]) |-> [i \in 1..Len(m) |-> m[i][j]]]

\* kron(a, b) of two matrices given by their rows
Kron(a, b) ==
    [i \in 1..(Len(a) * Len(b)) |->
        [j \in 1..(Len(a[1]) * Len(b[1])) |->
            a[((i - 1) \div Len(b)) + 1][((j - 1) \div Len(b[1])) + 1]
          * b[((i - 1) % Len(b)) + 1][((j - 1) % Len(b[1])) + 1]]]

\* kron(parts): the first part acts on the most significant bit
RECURSIVE KronAll(_)
KronAll(parts) ==
    IF Len(parts) = 1 THEN parts[1] ELSE Kron(parts[1], KronAll(Tail(parts)))

\* get_projector(v) = |v><v| for a real vector v
get_projector(v) == [i \in 1..Len(v) |-> [j \in 1..Len(v) |-> v[i] * v[j]]]

\* the eigenbasis a measurement uses: the computational basis when no
\* eigenvalues are passed (eigenvectors passed alone are ignored); passing
\* eigenvalues without eigenvectors raises ValueError
MeasureBasis(eigvals, eigvecs) ==
    IF IsNone(eigvals)
    THEN [raised |-> FALSE, eigvals |-> <<0, 1>>, eigvecs |-> Eye2]
    ELSE IF IsNone(eigvecs)
    THEN [raised |-> TRUE, eigvals |-> <<>>, eigvecs |-> <<>>]
    ELSE [raised |-> FALSE, eigvals |-> eigvals.v, eigvecs |-> Transpose(eigvecs.v)]

\* np.dot(m, amp) raises ValueError unless the shapes agree
CanApply(m, amp) == \A i \in 1..Len(m) : Len(m[i]) = Len(amp)

\* StateVector.project(idx, op): parts = [eye] * n_qubits; parts[idx] = op;
\* np.dot(kron(parts), amp)
StateVector_project(self, idx, op) ==
    IF idx >= self.n_qubits THEN [raised |-> TRUE, v |-> <<>>]
    ELSE LET m == KronAll([Repeat(Eye2, self.n_qubits) EXCEPT ![idx + 1] = op]) IN
         IF ~CanApply(m, self.amp) THEN [raised |-> TRUE, v |-> <<>>]
         ELSE [raised |-> FALSE, v |-> MatVec(m, self.amp)]

\* self.amp = projected / la.norm(projected)
Collapsed(self, projected) == [self EXCEPT !.amp = projected, !.den = SumSq(projected)]

\* a measurement call that raised: nothing is returned
MeasureRaised(self) ==
    [raised |-> TRUE, self |-> self, result |-> NoneV, index |-> 0 - 1]

\* measure_qubit after the projection on the first eigenvector: p0 is
\* Dot(amp, pr0) / den; index = int(np.random.random() > p0) for a draw in
\* [0, 1), so the first eigenstate is drawn when p0 >= 0 (the draw 0.0 is not
\* greater than p0 = 0) or p0 is NaN, and the second when p0 < 1; the return
\* value is eigvals[index]
MeasureQubitDrawn(self, b, pr0, pr1, shadow) ==
    {[raised |-> FALSE,
      self |-> IF shadow THEN self ELSE Collapsed(self, pr0),
      result |-> Scalar(b.eigvals[1]), index |-> 0] :
        x \in {y \in {0} : self.den = 0 \/ Dot(self.amp, pr0) >= 0}}
    \cup
    {[raised |-> FALSE,
      self |-> IF shadow THEN self ELSE Collapsed(self, pr1),
      result |-> Scalar(b.eigvals[2]), index |-> 1] :
        x \in {y \in {1} : self.den > 0 /\ Dot(self.amp, pr0) < self.den}}

MeasureQubitIn(self, idx, b, pr0, shadow) ==
    IF pr0.raised THEN {MeasureRaised(self)}
    ELSE MeasureQubitDrawn(self, b, pr0.v,
                           StateVector_project(self, idx, get_projector(b.eigvecs[2])).v,
                           shadow)

\* StateVector.measure_qubit(qubit, eigvals, eigvecs, shadow): the set of ways
\* the call can end, one per eigenstate that can be drawn
StateVector_measure_qubit(self, idx, eigvals, eigvecs, shadow) ==
    IF MeasureBasis(eigvals, eigvecs).raised THEN {MeasureRaised(self)}
    ELSE MeasureQubitIn(self, idx, MeasureBasis(eigvals, eigvecs),
                        StateVector_project(self, idx,
                            get_projector(MeasureBasis(eigvals, eigvecs).eigvecs[1])),
                        shadow)

\* list(product([0, 1], repeat=k))[i]: the k bits of i, first bit first
ResultBits(i, k) == [j \in 1..k |-> (i \div Pow2(k - j)) % 2]

\* parts = [eye] * n_qubits; for r, q in zip(res, qubits): parts[q.index] =
\* get_projector(eigvecs[r])   (a later pair overwrites an earlier one)
RECURSIVE ProjectorParts(_, _, _, _, _)
ProjectorParts(parts, res, qubits, eigvecs, j) ==
    IF j > Len(qubits) THEN parts
    ELSE ProjectorParts([parts EXCEPT ![qubits[j] + 1] = get_projector(eigvecs[res[j] + 1])],
                        res, qubits, eigvecs, j + 1)

\* projections[i] = np.dot(kron(parts), self.amp) for every enumerated result
MeasureProjections(self, qubits, eigvecs) ==
    [i \in 1..Pow2(Len(qubits)) |->
        MatVec(KronAll(ProjectorParts(Repeat(Eye2, self.n_qubits),
                                      ResultBits(i - 1, Len(qubits)),
                                      qubits, eigvecs, 1)),
               self.amp)]

\* probs[i] = <amp|projected>, as a multiple of 1 / den
MeasureProbs(self, projections) ==
    [i \in 1..Len(projections) |-> Dot(self.amp, projections[i])]

RECURSIVE SumSeq(_)
SumSeq(v) == IF Len(v) = 0 THEN 0 ELSE v[1] + SumSeq(Tail(v))

\* np.random.choice(range(len(results)), p=probs) raises ValueError unless the
\* probabilities are non-negative numbers that sum to 1
ChoiceRaises(self, probs) ==
    \/ self.den = 0
    \/ SumSeq(probs) # self.den
    \/ \E i \in 1..Len(probs) : probs[i] < 0

\* a measure that collapses first and takes its snapshot afterwards
MeasureDrawn_snapshot_late(self, b, k, projected, index, shadow, snap) ==
    IF ~shadow /\ snap.raised THEN MeasureRaised(self)
    ELSE [raised |-> FALSE,
          self |-> IF shadow THEN self
                   ELSE IF snap.self = self THEN Collapsed(self, projected)
                   ELSE StateVector_save_snapshot(Collapsed(self, projected)).self,
          result |-> List([j \in 1..k |-> b.eigvals[ResultBits(index, k)[j] + 1]]),
          index |-> index]

\* a measure that collapses whatever shadow is
MeasureDrawn_shadow_ignored(self, b, k, projected, index, shadow, snap) ==
    IF ~shadow /\ snap.raised THEN MeasureRaised(self)
    ELSE [raised |-> FALSE,
          self |-> Collapsed(snap.self, projected),
          result |-> List([j \in 1..k |-> b.eigvals[ResultBits(index, k)[j] + 1]]),
          index |-> index]

\* a measure that returns the eigenvalues of the complementary bits
MeasureDrawn_other_eigenvalues(self, b, k, projected, index, shadow, snap) ==
    IF ~shadow /\ snap.raised THEN MeasureRaised(self)
    ELSE [raised |-> FALSE,
          self |-> IF shadow THEN self ELSE Collapsed(snap.self, projected),
          result |-> List([j \in 1..k |-> b.eigvals[2 - ResultBits(index, k)[j]]]),
          index |-> index]

\* measure once results[index] is drawn: the eigenvalues of its bits are the
\* return value; unless shadow, save_snapshot() runs first if asked for, then
\* amp = projections[index] / its norm
MeasureDrawn(self, b, k, projected, index, shadow, snap) ==
    IF ~shadow /\ snap.raised THEN MeasureRaised(self)
    ELSE [raised |-> FALSE,
          self |-> IF shadow THEN self ELSE Collapsed(snap.self, projected),
          result |-> List([j \in 1..k |-> b.eigvals[ResultBits(index, k)[j] + 1]]),
          index |-> index]

MeasureIn(self, b, qubits, projections, probs, shadow, snapshot) ==
    IF ChoiceRaises(self, probs) THEN {MeasureRaised(self)}
    ELSE {MeasureDrawn(self, b, Len(qubits), projections[i], i - 1, shadow,
                       IF snapshot THEN StateVector_save_snapshot(self)
                       ELSE [raised |-> FALSE, self |-> self]) :
              i \in {j \in 1..Len(probs) : probs[j] > 0}}

MeasureWith(self, b, qubits, projections, shadow, snapshot) ==
    MeasureIn(self, b, qubits, projections, MeasureProbs(self, projections),
              shadow, snapshot)

\* StateVector.measure(qubits, eigvals, eigvecs, shadow, snapshot): the set of
\* ways the call can end.  parts[q.index] raises IndexError for a qubit the
\* engine does not have, np.dot raises when amp has not 2^n_qubits entries.
StateVector_measure(self, qubits, eigvals, eigvecs, shadow, snapshot) ==
    IF MeasureBasis(eigvals, eigvecs).raised THEN {MeasureRaised(self)}
    ELSE IF \E j \in 1..Len(qubits) : qubits[j] >= self.n_qubits
    THEN {MeasureRaised(self)}
    ELSE IF Len(self.amp) # Pow2(self.n_qubits) THEN {MeasureRaised(self)}
    ELSE MeasureWith(self, MeasureBasis(eigvals, eigvecs), qubits,
                     MeasureProjections(self, qubits,
                                        MeasureBasis(eigvals, eigvecs).eigvecs),
                     shadow, snapshot)

\* -------------------------------------------------------------------- Circuit

\* QuRegister(n).bits / ClRegister(n).bits: the bits 0 .. n-1
RegisterBits(n) == [i \in 1..n |-> i - 1]

\* QuRegister.list(x) / ClRegister.list(x): None for None, else the bits at
\* the given positions
Register_list(bits, x) ==
    IF IsNone(x) THEN NoneV
    ELSE List([k \in 1..Len(to_list(x).v) |-> bits[to_list(x).v[k] + 1]])

\* Circuit.__init__(qubits, clbits) without its backend, which is sv
Circuit_init(qubits, clbits) ==
    [n_qubits |-> qubits, n_clbits |-> clbits,
     qubits |-> RegisterBits(qubits), clbits |-> RegisterBits(clbits),
     instructions |-> <<>>]

\* Circuit.add(inst)
Circuit_add(self, inst) == [self EXCEPT !.instructions = Append(@, inst)]

\* Circuit.append(circuit): for inst in circuit: self.add(inst)
RECURSIVE Circuit_append_from(_, _, _)
Circuit_append_from(self, instructions, k) ==
    IF k > Len(instructions) THEN self
    ELSE Circuit_append_from(Circuit_add(self, instructions[k]), instructions, k + 1)

Circuit_append(self, circuit) == Circuit_append_from(self, circuit.instructions, 1)

\* Circuit.add_gate(name, qubits, con, arg, argidx, n): the constructor call
Circuit_add_gate(self, name, qubits, con, arg, argidx, n, st) ==
    Gate_init(name,
              Register_list(self.qubits, IF IsNone(qubits) THEN List(self.qubits) ELSE qubits),
              Register_list(self.qubits, con), arg, argidx, n, 1, st)

\* Circuit.add_measurement(qubits, clbits, basis): the constructor call
Circuit_add_measurement(self, qubits, clbits, basis, st) ==
    LET q == IF IsNone(qubits) THEN List(RegisterBits(self.n_qubits)) ELSE qubits
        c == IF IsNone(clbits) THEN q ELSE clbits
    IN  Measurement_init(<<"m">>, Register_list(self.qubits, q),
                         Register_list(self.clbits, c), basis, st)

\* for b in bits: if b.index >= idx: b.index += 1
BumpedFrom(bits, idx) ==
    [k \in 1..Len(bits) |-> IF bits[k] >= idx THEN bits[k] + 1 ELSE bits[k]]

\* list.insert(idx, x) for 0 <= idx
InsertAt(l, idx, x) ==
    IF idx >= Len(l) THEN Append(l, x)
    ELSE SubSeq(l, 1, idx) \o <<x>> \o SubSeq(l, idx + 1, Len(l))

\* the qubits or clbits x of an instruction, which are the register's own bit
\* objects, after the indices from idx on went up by one
BumpedBits(x, idx) == IF IsNone(x) THEN x ELSE List(BumpedFrom(x.v, idx))

\* Circuit.add_clbit(idx): the classical register and the instructions that
\* hold its bits
Circuit_add_clbit(self, idx) ==
    [self EXCEPT !.clbits = InsertAt(BumpedFrom(@, idx), idx, idx),
                 !.n_clbits = Len(self.clbits) + 1,
                 !.instructions = [k \in 1..Len(@) |->
                     [@[k] EXCEPT !.clbits = BumpedBits(@, idx)]]]

\* Circuit.add_qubit(idx, add_clbit), the circuit's side: the indices of the
\* register's qubits from idx on go up by one, in the Qubit objects, and the
\* new qubit is inserted into the register's list, in place
Circuit_add_qubit(self, idx, add_clbit) ==
    LET c1 == [self EXCEPT !.qubits = InsertAt(BumpedFrom(@, idx), idx, idx),
                           !.n_qubits = Len(self.qubits) + 1,
                           !.instructions = [k \in 1..Len(@) |->
                               [@[k] EXCEPT !.qubits = BumpedBits(@, idx),
                                            !.con = BumpedBits(@, idx)]]]
    IN  IF add_clbit THEN Circuit_add_clbit(c1, idx) ELSE c1

\* Circuit.add_qubit, the engine's side: every snapshot built while the
\* engine held the register's list holds that list, not a copy, and sees the
\* insertion; then self.backend.set_qubits(self.qubits, self.basis)
Backend_add_qubit(backend, qubits) ==
    LET seen == [backend EXCEPT !.snapshots = [k \in 1..Len(@) |->
                     IF @[k].qureg THEN [@[k] EXCEPT !.qubits = qubits]
                     ELSE @[k]]]
    IN  Holding(StateVector_set_qubits(seen, qubits,
                                       Scalar(Basis(Len(qubits))), NoneV), TRUE)

\* Circuit.to_string(delim): the header with delim, then every instruction's
\* to_string() with the default delimiter, joined by newlines
Circuit_to_string(self, pm, delim) ==
    LET header == <<"q", "u", "b", "i", "t", "s">> \o <<"=">> \o IntToStr(self.n_qubits) \o delim
                  \o <<"c", "l", "b", "i", "t", "s">> \o <<"=">> \o IntToStr(self.n_clbits) \o delim
        line(i) == Instruction_to_string(self.instructions[i], pm, DefaultDelim)
        n == Len(self.instructions)
    IN  [raised |-> \E i \in 1..n : line(i).raised,
         s |-> Join(<<header>> \o [i \in 1..n |-> line(i).s], <<"\n">>)]

\* utils.get_info(info, key, delim): the value of key=value in the header
get_info(info, key, delim) ==
    LET pieces == Split(info, delim)
        fields == [i \in 1..Len(pieces) |-> Split(pieces[i], <<"=">>)]
        ok == \E i \in 1..Len(fields) : Len(fields[i]) = 2 /\ fields[i][1] = key
    IN  [raised |-> ~ok,
         val |-> IF ok
                 THEN fields[CHOOSE i \in 1..Len(fields) :
                                 Len(fields[i]) = 2 /\ fields[i][1] = key][2]
                 ELSE <<>>]

\* one turn of the loop of Circuit.from_string: r is what the line's
\* Instruction.from_string did on the class state; self.add(inst) follows
\* when it returned
ParsedLine(acc, r) ==
    [st |-> [pm |-> r.pm, INDEX |-> r.INDEX],
     raised |-> r.raised,
     built |-> IF r.raised THEN acc.built ELSE Append(acc.built, r.inst)]

\* the loop of Circuit.from_string: every line is parsed and constructed in
\* turn on the class state; the first line that raises ends it
RECURSIVE ParseLines(_, _, _, _)
ParseLines(lines, self, delim, acc) ==
    IF Len(lines) = 0 \/ acc.raised THEN acc
    ELSE ParseLines(Tail(lines), self, delim,
             ParsedLine(acc, Instruction_from_string(lines[1], self.qubits,
                                                      self.clbits, delim, acc.st)))

\* the circuit Circuit.from_string returns, given what its loop did
ParsedCircuit(self, r) ==
    [raised |-> r.raised, st |-> r.st, built |-> r.built,
     self |-> [self EXCEPT !.instructions = r.built]]

\* Circuit.from_string after the header: cls(qbits, cbits), then the loop
Circuit_from_lines(lines, self, delim, st) ==
    ParsedCircuit(self, ParseLines(lines, self, delim,
                                   [st |-> st, raised |-> FALSE, built |-> <<>>]))

\* the header's counts, or a raise when one is missing (also: no header)
Circuit_header(lines, delim) ==
    IF Len(lines) = 0 THEN [raised |-> TRUE, qbits |-> 0, cbits |-> 0]
    ELSE [raised |-> get_info(lines[1], <<"q", "u", "b", "i", "t", "s">>, delim).raised
                     \/ get_info(lines[1], <<"c", "l", "b", "i", "t", "s">>, delim).raised,
          qbits |-> StrToInt(get_info(lines[1], <<"q", "u", "b", "i", "t", "s">>, delim).val),
          cbits |-> StrToInt(get_info(lines[1], <<"c", "l", "b", "i", "t", "s">>, delim).val)]

Circuit_from_header(lines, h, delim, st) ==
    IF h.raised THEN [raised |-> TRUE, st |-> st, built |-> <<>>, self |-> NoneV]
    ELSE Circuit_from_lines(Tail(lines), Circuit_init(h.qbits, h.cbits), delim, st)

Circuit_from_split(lines, delim, st) ==
    Circuit_from_header(lines, Circuit_header(lines, delim), delim, st)

\* Circuit.from_string(string, delim) on the class state st
Circuit_from_string(string, delim, st) ==
    Circuit_from_split(splitlines(string), delim, st)

\* ------------------------------------------------ calls on the parameter store

\* what callers pass
Values == {0, 1}
QubitInputs == {Scalar(0), List(<<0, 1>>)}
ArgInputs == {NoneV, Scalar(1), List(<<0, 1>>)}
IdxInputs == {NoneV, Scalar(0), List(<<0>>), List(<<0, 1>>)}
SetInputs == {<<>>, <<1>>, <<0, 1>>, <<1, 0, 1>>}

\* how many values add_arg is about to be handed
NumArgs(qubits, arg) ==
    IF IsNone(arg) THEN 0
    ELSE IF arg.tag = "scalar" /\ qubits.tag = "list" THEN Len(qubits.v)
    ELSE Len(arg.v)

\* the class state and the log after a constructor call
ConstructedPm(op, r, arg, argidx) ==
    /\ indices' = r.pm.indices
    /\ params' = r.pm.params
    /\ INDEX' = r.INDEX
    /\ insts' = IF r.raised THEN insts ELSE Append(insts, r.inst)
    /\ last' = [op |-> op, raised |-> r.raised, arg |-> arg, argidx |-> argidx,
                add_arg |-> r.add_arg, add_idx |-> r.add_idx, idx |-> INDEX,
                pool_before |-> Len(params)]

Constructed(op, r, arg, argidx) ==
    /\ ConstructedPm(op, r, arg, argidx)
    /\ UNCHANGED GATE_DICT

\* Gate(name, qubits, arg=arg, argidx=argidx)
NewGate(qubits, arg, argidx) ==
    /\ INDEX < MaxIndex
    /\ Len(indices) < MaxIndex
    /\ Len(params) + NumArgs(qubits, arg) <= MaxPool
    /\ Constructed("Gate", Gate_init(<<"R", "x">>, qubits, NoneV, arg, argidx, 1, 1, cls),
                   arg, argidx)
    /\ UNCHANGED <<rtvars, sv>>

\* Gate.rx(qubits, argidx=argidx): arg is left to its default
NewGateRx(qubits, argidx) ==
    /\ INDEX < MaxIndex
    /\ Len(indices) < MaxIndex
    /\ Len(params) + NumArgs(qubits, Scalar(0)) <= MaxPool
    /\ Constructed("Gate.rx", Gate_rx(qubits, NoneV, argidx, NoneV, cls), NoneV, argidx)
    /\ UNCHANGED <<rtvars, sv>>

\* Measurement("m", qubits)
NewMeasurement(qubits) ==
    /\ INDEX < MaxIndex
    /\ Len(indices) < MaxIndex
    /\ Constructed("Measurement", Measurement_init(<<"m">>, qubits, NoneV, "", cls),
                   NoneV, NoneV)
    /\ UNCHANGED <<rtvars, sv>>

\* ParameterMap.set(values) / Circuit.set_params(values)
PmapSet(values) ==
    /\ params' = ParameterMap_set(pmap, values).params
    /\ indices' = ParameterMap_set(pmap, values).indices
    /\ last' = [op |-> "set", raised |-> FALSE, values |-> values,
                pool_before |-> Len(params)]
    /\ UNCHANGED <<INDEX, insts, rtvars, sv, GATE_DICT>>

\* ParameterMap.init(n) / Circuit.init_params(n)
PmapInit(n) ==
    /\ params' = ParameterMap_init(pmap, Scalar(n)).params
    /\ indices' = ParameterMap_init(pmap, Scalar(n)).indices
    /\ last' = [op |-> "init", raised |-> FALSE, n |-> n,
                pool_before |-> Len(params)]
    /\ UNCHANGED <<INDEX, insts, rtvars, sv, GATE_DICT>>

\* pmap[key] = value / Circuit.set_param(key, value)
PmapSetItem(key, value) ==
    LET r == ParameterMap_setitem(pmap, key, value) IN
    /\ params' = r.pm.params
    /\ indices' = r.pm.indices
    /\ last' = [op |-> "setitem", raised |-> r.raised, key |-> key, value |-> value,
                pool_before |-> Len(params)]
    /\ UNCHANGED <<INDEX, insts, rtvars, sv, GATE_DICT>>

\* the map and the log after a call of one of its recording methods
PmapRecorded(op, r, arg, idx) ==
    /\ params' = r.pm.params
    /\ indices' = r.pm.indices
    /\ last' = [op |-> op, raised |-> r.raised, add_arg |-> arg, add_idx |-> idx,
                pool_before |-> Len(params)]
    /\ UNCHANGED <<INDEX, insts, rtvars, sv, GATE_DICT>>

\* pmap.add(arg, idx), called on the map itself: no instruction is created
\* and Instruction.INDEX stays
PmapAdd(arg, idx) ==
    /\ Len(indices) < MaxIndex
    /\ Len(params) + NumArgs(NoneV, arg) <= MaxPool
    /\ PmapRecorded("pmap.add", ParameterMap_add(pmap, arg, idx), arg, idx)

\* pmap.add_arg(args, idx)
PmapAddArg(args, idx) ==
    /\ Len(indices) < MaxIndex
    /\ Len(params) + Len(args.v) <= MaxPool
    /\ PmapRecorded("pmap.add_arg", ParameterMap_add_arg(pmap, args, idx), args, idx)

\* pmap.link_param(idx)
PmapLinkParam(idx) ==
    /\ Len(indices) < MaxIndex
    /\ PmapRecorded("pmap.link_param",
                    [pm |-> ParameterMap_link_param(pmap, idx), raised |-> FALSE],
                    NoneV, idx)

\* pmap.add_empty()
PmapAddEmpty ==
    /\ Len(indices) < MaxIndex
    /\ PmapRecorded("pmap.add_empty",
                    [pm |-> ParameterMap_add_empty(pmap), raised |-> FALSE],
                    NoneV, NoneV)

\* ParameterMap.add_param(value)
PmapAddParam(value) ==
    /\ Len(params) < MaxPool
    /\ params' = ParameterMap_add_param(pmap, value).params
    /\ indices' = ParameterMap_add_param(pmap, value).indices
    /\ last' = [op |-> "add_param", raised |-> FALSE, value |-> value,
                pool_before |-> Len(params)]
    /\ UNCHANGED <<INDEX, insts, rtvars, sv, GATE_DICT>>

\* --------------------------------------------------------- calls on a circuit

NumQubits == 2      \* qubits and classical bits of the circuit
MaxCirc == 2        \* longest instruction list explored

GateX == <<"X">>
GateRx == <<"R", "x">>
BitLists == {List(<<0>>), List(<<1>>), List(<<0, 1>>)}
ConInputs == {NoneV, List(<<0>>), List(<<0, 1>>)}
ClbitInputs == {NoneV, List(<<0>>), List(<<1>>), List(<<1, 0>>)}

\* Circuit.x / cx / rx / crx: add_gate(name, qubits, con, arg, argidx)
CircAddGate(name, qubits, con, arg, argidx) ==
    LET r == Circuit_add_gate(circ, name, qubits, con, arg, argidx, 1, cls) IN
    /\ Len(circ.instructions) < MaxCirc
    /\ Len(params) + NumArgs(qubits, arg) <= MaxPool
    /\ Constructed("add_gate", r, arg, argidx)
    /\ circ' = IF r.raised THEN circ ELSE Circuit_add(circ, r.inst)
    /\ UNCHANGED <<text, parsed, sv>>

\* Circuit.m(qubits, clbits): add_measurement(qubits, clbits)
CircAddMeasurementUpTo(qubits, clbits, max) ==
    LET r == Circuit_add_measurement(circ, qubits, clbits, "", cls) IN
    /\ Len(circ.instructions) < max
    /\ Constructed("add_measurement", r, NoneV, NoneV)
    /\ circ' = IF r.raised THEN circ ELSE Circuit_add(circ, r.inst)
    /\ UNCHANGED <<text, parsed, sv>>

CircAddMeasurement(qubits, clbits) == CircAddMeasurementUpTo(qubits, clbits, MaxCirc)

\* text = circ.to_string()
\* the text and the log after Circuit.to_string; of is a history field, the
\* instruction list the text was made from
ToStringDone(r) ==
    /\ text' = IF r.raised THEN text ELSE [s |-> r.s, of |-> circ.instructions]
    /\ last' = [op |-> "to_string", raised |-> r.raised]

CircToString ==
    /\ ToStringDone(Circuit_to_string(circ, pmap, DefaultDelim))
    /\ UNCHANGED <<pmvars, circ, parsed, sv>>

\* the class state, the circuit and the log after Circuit.from_string
FromStringDone(r) ==
    /\ indices' = r.st.pm.indices
    /\ params' = r.st.pm.params
    /\ INDEX' = r.st.INDEX
    /\ insts' = insts \o r.built
    /\ parsed' = IF r.raised THEN parsed ELSE r.self
    /\ last' = [op |-> "from_string", raised |-> r.raised]
    /\ UNCHANGED GATE_DICT

\* parsed = Circuit.from_string(text), for a text that to_string has returned
CircFromString ==
    /\ text.s # <<>>
    /\ INDEX + Len(text.of) <= 2 * MaxCirc
    /\ FromStringDone(Circuit_from_string(text.s, DefaultDelim, cls))
    /\ UNCHANGED <<circ, text, sv>>

\* circ.append(parsed)
CircAppend ==
    /\ parsed # NoneV
    /\ Len(circ.instructions) + Len(parsed.instructions) <= MaxCirc + 1
    /\ circ' = Circuit_append(circ, parsed)
    /\ last' = [op |-> "append", raised |-> FALSE]
    /\ UNCHANGED <<pmvars, text, parsed, sv>>

\* ------------------------------------------------------- calls on the engine

MaxSnap == 1        \* longest snapshot log explored

AmpInputs == {NoneV, List(<<1, 0>>), List(<<0, 1>>), List(<<1, 1>>),
              List(<<0, 0, 1, 0>>), List(<<1, 0, 0, 1>>),
              Vec(<<1, 1>>, 2), Vec(<<1, 0, 0, 1>>, 2), Vec(<<1, 1, 1, 1>>, 4)}
QubitListInputs == {<<0>>, <<0, 1>>}
X2 == <<<<0, 1>>, <<1, 0>>>>
X4 == <<<<0, 0, 1, 0>>, <<0, 0, 0, 1>>, <<1, 0, 0, 0>>, <<0, 1, 0, 0>>>>
CX4 == <<<<1, 0, 0, 0>>, <<0, 1, 0, 0>>, <<0, 0, 0, 1>>, <<0, 0, 1, 0>>>>
UnitaryInputs == {X2, X4, CX4}

\* the engine and the log after a call on it
SvCalled(op, r, args) ==
    /\ sv' = r.self
    /\ last' = [op |-> op, raised |-> r.raised, args |-> args]
    /\ UNCHANGED <<pmvars, rtvars>>

\* sv.set_qubits(qubits, amp=amp)
SvSetQubits(qubits, amp) ==
    SvCalled("sv.set_qubits",
             Holding(StateVector_set_qubits(sv, qubits, NoneV, amp), FALSE),
             [qubits |-> qubits, amp |-> amp])

\* sv.set(amp)
SvSet(amp) == SvCalled("sv.set", StateVector_set(sv, amp), [amp |-> amp])

\* sv.load_state(file) for a file holding arr
SvLoadState(arr) ==
    SvCalled("sv.load_state", [raised |-> FALSE, self |-> StateVector_load_state(sv, arr)],
             arr)

\* sv.save_snapshot()
SvSaveSnapshot ==
    /\ Len(sv.snapshots) < MaxSnap
    /\ SvCalled("sv.save_snapshot", StateVector_save_snapshot(sv), NoneV)

\* sv.apply_unitary(u) / sv.apply_gate(u) for an array u
SvApplyUnitary(u) == SvCalled("sv.apply_unitary", StateVector_apply_unitary(sv, u), NoneV)

\* sv[item] = value
ItemValues == {0, 1}

SvSetItem(item, value) ==
    /\ sv.den = 1
    /\ SvCalled("sv.setitem", StateVector_setitem(sv, item, value),
                [item |-> item, value |-> value])

\* sv.prepare(*states)
Plus == Vec(<<1, 1>>, 2)
PrepareInputs == {<<List(<<1, 0>>)>>, <<List(<<0, 1>>), Plus>>, <<Plus, Plus>>,
                  <<List(<<1, 1>>)>>, <<List(<<1, 0>>), List(<<1, 1>>)>>}

SvPrepare(states) ==
    SvCalled("sv.prepare", StateVector_prepare(sv, states), [states |-> states])

\* the engine and the log after a measurement call that ended as o
SvMeasured(op, o, args) ==
    /\ sv' = o.self
    /\ last' = [op |-> op, raised |-> o.raised, args |-> args,
                result |-> o.result, index |-> o.index]
    /\ UNCHANGED <<pmvars, rtvars>>

MeasureQubitInputs == {<<0>>, <<0, 1>>, <<1, 0>>, <<0, 0>>}
EigvalInputs == {NoneV, List(<<1, 0 - 1>>)}
EigvecInputs == {NoneV, List(Eye2), List(X2)}

\* the calls of measure explored: every target list in the computational
\* basis, every setting of shadow and snapshot for two targets, and every way
\* of passing a basis for one target
MeasureCalls ==
    {[qubits |-> q, eigvals |-> NoneV, eigvecs |-> NoneV, shadow |-> FALSE, snapshot |-> TRUE] :
        q \in MeasureQubitInputs}
    \cup
    {[qubits |-> <<0, 1>>, eigvals |-> NoneV, eigvecs |-> NoneV, shadow |-> sh, snapshot |-> sn] :
        sh \in BOOLEAN, sn \in BOOLEAN}
    \cup
    {[qubits |-> <<0>>, eigvals |-> l, eigvecs |-> e, shadow |-> FALSE, snapshot |-> TRUE] :
        l \in EigvalInputs, e \in EigvecInputs}

\* sv.measure(qubits, eigvals, eigvecs, shadow, snapshot)
SvMeasure(c) ==
    /\ (~c.shadow /\ c.snapshot) => Len(sv.snapshots) < MaxSnap
    /\ \E o \in StateVector_measure(sv, c.qubits, c.eigvals, c.eigvecs,
                                     c.shadow, c.snapshot) :
           SvMeasured("sv.measure", o, c)

\* the calls of measure_qubit explored
MeasureQubitCalls ==
    {[qubit |-> q, eigvals |-> NoneV, eigvecs |-> NoneV, shadow |-> sh] :
        q \in 0..NumQubits, sh \in BOOLEAN}
    \cup
    {[qubit |-> 0, eigvals |-> l, eigvecs |-> e, shadow |-> FALSE] :
        l \in EigvalInputs, e \in EigvecInputs}

\* sv.measure_qubit(qubit, eigvals, eigvecs, shadow)
SvMeasureQubit(c) ==
    \E o \in StateVector_measure_qubit(sv, c.qubit, c.eigvals, c.eigvecs, c.shadow) :
        SvMeasured("sv.measure_qubit", o, c)

\* ------------------------------------------------------- gates on the engine

\* A gate function is the record of its signature and body: sig = 1 for a
\* function of the argument that gives the 2x2 matrix, sig = 3 for a function
\* of (target indices, n_qubits, argument) that gives the full operator.
Z2 == <<<<1, 0>>, <<0, 0 - 1>>>>
x_gate == [sig |-> 1, body |-> "x"]
z_gate == [sig |-> 1, body |-> "z"]
xy_gate == [sig |-> 3, body |-> "xy"]
b_gate == [sig |-> 3, body |-> "b"]

\* functions a caller registers: flip(arg) is X for arg = 1 and the identity
\* otherwise; chain(i, n, arg) is, for arg = 1, X on qubit (i + 1) % n
\* controlled by qubit i, and the identity otherwise
flip == [sig |-> 1, body |-> "flip"]
chain == [sig |-> 3, body |-> "chain"]

\* the gate registry at import, as far as its matrices are integer: lowercase
\* name to gate function
GATE_DICT_import ==
    [name \in {<<"x">>, <<"z">>, <<"x", "y">>, <<"b">>} |->
        CASE name = <<"x">> -> x_gate
          [] name = <<"z">> -> z_gate
          [] name = <<"x", "y">> -> xy_gate
          [] OTHER -> b_gate]

\* Gate.add_custom_gate(name, item) / StateVector.add_custom_gate(name, item):
\* GATE_DICT.update({name: item}), the key as it was given
Gate_add_custom_gate(reg, name, item) ==
    [k \in (DOMAIN reg) \cup {name} |-> IF k = name THEN item ELSE reg[k]]

\* Gate._get_gatefunc(name): GATE_DICT.get(name.lower()), KeyError when absent
Gate_get_gatefunc(name) ==
    IF Lower(name) \in DOMAIN GATE_DICT
    THEN [raised |-> FALSE, func |-> GATE_DICT[Lower(name)]]
    ELSE [raised |-> TRUE, func |-> x_gate]

\* str.replace(old, "") for a one-character old
Replace(str, old) == SelectSeq(str, LAMBDA ch : ch # old)

\* Instruction.get_arg(i): self.args[i] if self.args is not None else None
Instruction_get_arg(inst, pm, i) ==
    LET a == Instruction_args(inst, pm) IN
    IF a.raised THEN [raised |-> TRUE, val |-> NoneV]
    ELSE IF IsNone(a.val) THEN [raised |-> FALSE, val |-> NoneV]
    ELSE IF i >= Len(a.val.v) THEN [raised |-> TRUE, val |-> NoneV]
    ELSE [raised |-> FALSE, val |-> Scalar(a.val.v[i + 1])]

\* single_gate(indices, matrices, n): the tensor product of n factors, the
\* k-th matrix at qubit targets[k] and the identity elsewhere
single_gate(targets, matrices, n) ==
    IF \E k \in 1..Len(targets) : targets[k] >= n
    THEN [raised |-> TRUE, arr |-> <<>>]
    ELSE [raised |-> FALSE,
          arr |-> KronAll([q \in 1..n |->
                     IF \E k \in 1..Len(targets) : targets[k] = q - 1
                     THEN matrices[CHOOSE k \in 1..Len(targets) :
                              /\ targets[k] = q - 1
                              /\ \A l \in (k + 1)..Len(targets) : targets[l] # q - 1]
                     ELSE Eye2])]

\* cgate(con, t, gate, n, trigger): gate on qubit t for the basis states in
\* which every control qubit has the trigger value, the identity for the rest
cgate(con, t, gate, n, trigger) ==
    LET full == single_gate(<<t>>, <<gate>>, n) IN
    IF full.raised \/ \E k \in 1..Len(con) : con[k] >= n
    THEN [raised |-> TRUE, arr |-> <<>>]
    ELSE [raised |-> FALSE,
          arr |-> [r \in 1..Pow2(n) |-> [c \in 1..Pow2(n) |->
                     IF \A k \in 1..Len(con) : BitOf(c - 1, con[k], n) = trigger
                     THEN full.arr[r][c]
                     ELSE IF r = c THEN 1 ELSE 0]]]

\* func(arg): TypeError for a function of three arguments
Call1(func, arg) ==
    IF func.sig # 1 THEN [raised |-> TRUE, arr |-> <<>>]
    ELSE [raised |-> FALSE,
          arr |-> CASE func.body = "x" -> X2
                    [] func.body = "z" -> Z2
                    [] OTHER -> IF arg = Scalar(1) THEN X2 ELSE Eye2]

\* func(idx, n_qubits, arg) for one index idx: TypeError for a function of one
\* argument; xy_gate and b_gate take the pair of target indices and fail on a
\* single index
Call3(func, idx, n_qubits, arg) ==
    IF func.sig # 3 \/ func.body # "chain" THEN [raised |-> TRUE, arr |-> <<>>]
    ELSE IF arg = Scalar(1)
         THEN cgate(<<idx>>, (idx + 1) % n_qubits, X2, n_qubits, 1)
         ELSE single_gate(<<>>, <<>>, n_qubits)

\* Gate._qubit_gate_matrix(idx): the argument is fetched first, then the
\* function is looked up and called
Gate_qubit_gate_matrix(inst, pm, idx) ==
    LET arg == Instruction_get_arg(inst, pm, idx)
        f == Gate_get_gatefunc(inst.name)
    IN  IF arg.raised \/ f.raised THEN [raised |-> TRUE, arr |-> <<>>]
        ELSE Call1(f.func, arg.val)

\* np.dot(a, b) of two matrices
MatMul(a, b) ==
    [i \in 1..Len(a) |-> [j \in 1..Len(b[1]) |-> Dot(a[i], Transpose(b)[j])]]

\* arr = ms[1]; for i in range(1, n_gates): arr = np.dot(arr, ms[i + 1])
RECURSIVE DotAll(_, _)
DotAll(arr, ms) ==
    IF Len(ms) = 0 THEN arr ELSE DotAll(MatMul(arr, ms[1]), Tail(ms))

\* the calls of the gate function that build_matrix makes for a gate of
\* size > 1: one per target index, each with its own argument
NativeCalls(inst, func, targets, n_qubits, pm) ==
    [i \in 1..Len(targets) |->
        LET arg == Instruction_get_arg(inst, pm, i - 1) IN
        IF arg.raised THEN [raised |-> TRUE, made |-> FALSE, arr |-> <<>>, args |-> <<>>]
        ELSE LET m == Call3(func, targets[i], n_qubits, arg.val) IN
             [raised |-> m.raised, made |-> TRUE, arr |-> m.arr,
              args |-> <<Scalar(targets[i]), n_qubits, arg.val>>]]

\* the calls up to the first that raises
MadeCalls(cs) ==
    LET stop == IF \E i \in 1..Len(cs) : cs[i].raised
                THEN CHOOSE i \in 1..Len(cs) :
                        cs[i].raised /\ \A j \in 1..(i - 1) : ~cs[j].raised
                ELSE Len(cs)
    IN  [i \in 1..(IF stop > 0 /\ ~cs[stop].made THEN stop - 1 ELSE stop) |->
            cs[i].args]

\* Gate.build_matrix(n_qubits), with the calls of the gate function it made.
\* A controlled gate looks its function up under the name without any "c" and
\* builds from the first target and the first argument; a gate of size > 1
\* multiplies the operators of its targets in list order; any other gate is
\* the tensor product of one matrix per target.
Gate_build_matrix(inst, n_qubits, pm) ==
    LET qu == Instruction_qu_indices(inst)
        failed == [raised |-> TRUE, arr |-> <<>>, calls |-> <<>>]
    IN
    IF ~IsNone(inst.con) /\ Len(inst.con.v) > 0
    THEN LET f == Gate_get_gatefunc(Replace(inst.name, "c"))
             arg == Instruction_get_arg(inst, pm, 0)
         IN  IF f.raised \/ arg.raised THEN failed
             ELSE LET m == Call1(f.func, arg.val) IN
                  IF m.raised \/ Instruction_con_indices(inst).raised
                     \/ qu.raised \/ IsNone(qu.val) \/ Len(qu.val.v) = 0
                  THEN [failed EXCEPT !.calls = <<<<arg.val>>>>]
                  ELSE LET c == cgate(inst.con.v, qu.val.v[1], m.arr, n_qubits,
                                      inst.con_trigger)
                       IN  [raised |-> c.raised, arr |-> c.arr,
                            calls |-> <<<<arg.val>>>>]
    ELSE IF qu.raised \/ IsNone(qu.val) THEN failed
    ELSE IF inst.size > 1
    THEN LET f == Gate_get_gatefunc(inst.name) IN
         IF f.raised \/ Len(qu.val.v) = 0 THEN failed
         ELSE LET cs == NativeCalls(inst, f.func, qu.val.v, n_qubits, pm) IN
              IF \E i \in 1..Len(cs) : cs[i].raised
              THEN [failed EXCEPT !.calls = MadeCalls(cs)]
              ELSE [raised |-> FALSE,
                    arr |-> DotAll(cs[1].arr, Tail([i \in 1..Len(cs) |-> cs[i].arr])),
                    calls |-> MadeCalls(cs)]
    ELSE LET ms == [k \in 1..Len(qu.val.v) |->
                       Gate_qubit_gate_matrix(inst, pm, k - 1)]
         IN  IF \E k \in 1..Len(ms) : ms[k].raised THEN failed
             ELSE LET g == single_gate(qu.val.v, [k \in 1..Len(ms) |-> ms[k].arr],
                                       n_qubits)
                  IN  [raised |-> g.raised, arr |-> g.arr,
                       calls |-> [k \in 1..Len(ms) |->
                                     <<Instruction_get_arg(inst, pm, k - 1).val>>]]

\* StateVector.apply_gate(gate) for a Gate object: the matrix is built first
StateVector_apply_gate(self, gate, pm) ==
    LET m == Gate_build_matrix(gate, self.n_qubits, pm) IN
    IF m.raised THEN [raised |-> TRUE, self |-> self]
    ELSE StateVector_apply_unitary(self, m.arr)

\* ------------------------------------------------------------------- shots

\* the methods and attributes of a StateVector
StateVector_attributes ==
    {"__init__", "set_qubits", "set", "prepare", "norm", "last", "dtype",
     "__getitem__", "__setitem__", "__str__", "save_state", "load_state",
     "save_snapshot", "add_custom_gate", "density_matrix", "amplitudes",
     "probabilities", "histogram", "project", "expectation", "apply_unitary",
     "apply_gate", "measure_qubit", "measure", "measure_x", "measure_y",
     "measure_z", "name", "GATE_DICT", "n_qubits", "n", "qubits", "basis",
     "amp", "snapshots"}

\* the methods and attributes of a Measurement
Measurement_attributes ==
    {"__init__", "_init", "is_gate", "is_measurement", "is_controlled",
     "n_qubits", "qu_indices", "n_con", "con_indices", "n_clbits",
     "cl_indices", "argidx", "args", "get_arg", "_attr_str", "__str__",
     "to_dict", "to_string", "from_string", "x", "y", "z", "eigenbasis",
     "INDEX", "TYPE", "GATE_DICT", "pmap", "idx", "size", "name", "qubits",
     "con", "clbits", "con_trigger", "basis"}

\* the keyword parameters of StateVector.measure
StateVector_measure_parameters ==
    {"qubits", "eigvals", "eigvecs", "shadow", "snapshot"}

\* Circuit.init(): self.backend.init(), AttributeError when the backend has
\* no such attribute
Circuit_reinit(backend) ==
    [raised |-> ~("init" \in StateVector_attributes), self |-> backend]

\* for idx, x in zip(cl_indices, values): data[idx] = x
WriteData(data, cl_indices, values) ==
    LET m == IF Len(cl_indices) < Len(values) THEN Len(cl_indices) ELSE Len(values)
        At(c) == {j \in 1..m : cl_indices[j] = c - 1}
    IN  IF \E j \in 1..m : cl_indices[j] >= Len(data)
        THEN [raised |-> TRUE, data |-> data]
        ELSE [raised |-> FALSE,
              data |-> [c \in 1..Len(data) |->
                          IF At(c) = {} THEN data[c]
                          ELSE values[CHOOSE j \in At(c) : \A l \in At(c) : l <= j]]]

\* a shot that ended with an exception; start is the engine's vector when the
\* loop over the instructions began, None when it never did
ShotRaised(backend, log) ==
    [raised |-> TRUE, self |-> backend, data |-> NoneV, log |-> log,
     start |-> NoneV]

\* an instruction that a shot has carried out, with the values measured
Done(inst, values) ==
    [idx |-> inst.idx,
     clbits |-> IF IsNone(inst.clbits) THEN <<>> ELSE inst.clbits.v,
     values |-> values]

\* the loop of Circuit.run_shot from instruction k on; log is the sequence of
\* the instructions carried out so far
RECURSIVE Circuit_run_instructions(_, _, _, _, _, _)
Circuit_run_instructions(instructions, k, backend, data, pm, log) ==
    IF k > Len(instructions)
    THEN [raised |-> FALSE, self |-> backend, data |-> List(data), log |-> log,
          start |-> NoneV]
    ELSE IF instructions[k].TYPE = "Gate"
    THEN LET r == StateVector_apply_gate(backend, instructions[k], pm) IN
         IF r.raised THEN ShotRaised(backend, log)
         ELSE Circuit_run_instructions(instructions, k + 1, r.self, data, pm,
                                       Append(log, Done(instructions[k], <<>>)))
    ELSE IF instructions[k].TYPE = "Measurement"
    THEN \* op = inst.basis_operator(); values = self.backend.measure(inst.qubits, basis=op)
         IF ~("basis_operator" \in Measurement_attributes)
                \/ ~("basis" \in StateVector_measure_parameters)
         THEN ShotRaised(backend, log)
         ELSE Circuit_run_instructions(instructions, k + 1, backend, data, pm,
                                       Append(log, Done(instructions[k], <<>>)))
    ELSE Circuit_run_instructions(instructions, k + 1, backend, data, pm, log)

\* Circuit.run_shot(): self.init(), a zero data vector, then the instructions
Circuit_run_shot(self, backend, pm) ==
    LET i == Circuit_reinit(backend) IN
    IF i.raised THEN ShotRaised(backend, <<>>)
    ELSE [Circuit_run_instructions(self.instructions, 1, i.self,
                                   Repeat(0, self.n_clbits), pm, <<>>)
             EXCEPT !.start = Vec(i.self.amp, i.self.den)]

\* qsim2's engine is reinitialised to the all-zero state
Backend2_init(backend) == StateVector_set(backend, NoneV)

\* the loop of qsim2's Circuit.run_shot from instruction k on, as the set of
\* its possible outcomes: data is set to zeros again at every measurement,
\* which is made in the computational basis
RECURSIVE Circuit2_run_instructions(_, _, _, _, _, _)
Circuit2_run_instructions(instructions, k, backend, data, pm, log) ==
    IF k > Len(instructions)
    THEN {[raised |-> FALSE, self |-> backend, data |-> List(data), log |-> log,
           start |-> NoneV]}
    ELSE IF instructions[k].TYPE = "Gate"
    THEN LET r == StateVector_apply_gate(backend, instructions[k], pm) IN
         IF r.raised THEN {ShotRaised(backend, log)}
         ELSE Circuit2_run_instructions(instructions, k + 1, r.self, data, pm,
                                        Append(log, Done(instructions[k], <<>>)))
    ELSE IF instructions[k].TYPE = "Measurement"
    THEN UNION {
             IF o.raised THEN {ShotRaised(o.self, log)}
             ELSE LET w == WriteData(Repeat(0, Len(data)),
                                     Instruction_cl_indices(instructions[k]).val.v,
                                     o.result.v)
                  IN  IF w.raised THEN {ShotRaised(o.self, log)}
                      ELSE Circuit2_run_instructions(instructions, k + 1, o.self,
                               w.data, pm,
                               Append(log, Done(instructions[k], o.result.v)))
             : o \in StateVector_measure(backend,
                         Instruction_qu_indices(instructions[k]).val.v,
                         NoneV, NoneV, FALSE, TRUE)}
    ELSE Circuit2_run_instructions(instructions, k + 1, backend, data, pm, log)

\* qsim2's Circuit.run_shot()
Circuit2_run_shot(self, backend, pm) ==
    LET i == Backend2_init(backend) IN
    IF i.raised THEN {ShotRaised(backend, <<>>)}
    ELSE {[o EXCEPT !.start = Vec(i.self.amp, i.self.den)] :
             o \in Circuit2_run_instructions(self.instructions, 1, i.self,
                       Repeat(0, self.n_clbits), pm, <<>>)}

\* ------------------------------------------------------- calls on a circuit

MaxShots == 2       \* shots explored: snapshots in the log of the engine
MaxRun == 3         \* longest instruction list that is run
MaxCustom == 2      \* entries added to the gate registry
MaxQubits == 3      \* largest n_qubits a matrix is built for

GateQ == <<"Q">>
GateXc == <<"X", "c">>

\* the gates explored: X, CX, and two names the registry does not have, plain
\* and controlled
GateCalls ==
    {[name |-> GateX, qubits |-> List(<<0>>), con |-> NoneV],
     [name |-> GateX, qubits |-> List(<<1>>), con |-> List(<<0>>)],
     [name |-> GateQ, qubits |-> List(<<0>>), con |-> NoneV],
     [name |-> GateQ, qubits |-> List(<<1>>), con |-> List(<<0>>)],
     [name |-> GateXc, qubits |-> List(<<0>>), con |-> NoneV],
     [name |-> GateXc, qubits |-> List(<<1>>), con |-> List(<<0>>)]}

\* the measurements explored
MeasurementCalls ==
    {[qubits |-> List(<<0>>), clbits |-> NoneV],
     [qubits |-> List(<<1>>), clbits |-> NoneV],
     [qubits |-> List(<<0, 1>>), clbits |-> List(<<1, 0>>)]}

\* g = Gate(name, qubits, con), on its own
NewGateNamed(c) ==
    /\ Len(insts) < MaxCirc
    /\ Constructed("Gate", Gate_init(c.name, c.qubits, c.con, NoneV, NoneV, 1, 1, cls),
                   NoneV, NoneV)
    /\ UNCHANGED <<rtvars, sv>>

\* circ.add(insts[k]) for an instruction built before
CircAdd(k) ==
    /\ k \in 1..Len(insts)
    /\ Len(circ.instructions) < MaxRun
    /\ circ' = Circuit_add(circ, insts[k])
    /\ last' = [op |-> "add", raised |-> FALSE, args |-> k]
    /\ UNCHANGED <<pmvars, text, parsed, sv>>

\* circ.backend.apply_gate(g) for a Gate g built before
SvApplyGate(k) ==
    /\ k \in 1..Len(insts)
    /\ insts[k].TYPE = "Gate"
    /\ SvCalled("sv.apply_gate", StateVector_apply_gate(sv, insts[k], pmap),
                insts[k])

\* the engine and the log after a shot that ended as o
ShotDone(op, o) ==
    /\ sv' = o.self
    /\ last' = [op |-> op, raised |-> o.raised, data |-> o.data, log |-> o.log,
                start |-> o.start, of |-> circ.instructions]
    /\ UNCHANGED <<pmvars, rtvars>>

\* circ.run_shot()
CircRunShot == ShotDone("run_shot", Circuit_run_shot(circ, sv, pmap))

\* the number of measurements among the instructions
NumMeasurements(instructions) ==
    Cardinality({k \in 1..Len(instructions) : instructions[k].TYPE = "Measurement"})

\* circ.run_shot() of qsim2
Circ2RunShot ==
    /\ Len(sv.snapshots) + NumMeasurements(circ.instructions) <= MaxShots
    /\ \E o \in Circuit2_run_shot(circ, sv, pmap) : ShotDone("run_shot2", o)

\* circ.add_qubit(idx, add_clbit); one qubit is added at most
AddQubitInputs == {NoneV, Scalar(0), Scalar(1)}

CircAddQubit(idx, add_clbit) ==
    LET i == IF IsNone(idx) THEN circ.n_qubits ELSE idx.v[1]
        c == Circuit_add_qubit(circ, i, add_clbit)
    IN  /\ Len(circ.qubits) <= NumQubits
        /\ circ' = c
        /\ sv' = Backend_add_qubit(sv, c.qubits).self
        /\ last' = [op |-> "add_qubit", raised |-> FALSE,
                    args |-> [idx |-> idx, add_clbit |-> add_clbit]]
        /\ UNCHANGED <<pmvars, text, parsed>>

\* Circuit.add_clbit(idx), called on the circuit itself: idx defaults to the
\* number of QUBITS; the engine is not told
CircAddClbit(idx) ==
    LET i == IF IsNone(idx) THEN circ.n_qubits ELSE idx.v[1]
    IN  /\ Len(circ.clbits) <= NumQubits
        /\ circ' = Circuit_add_clbit(circ, i)
        /\ last' = [op |-> "add_clbit", raised |-> FALSE,
                    args |-> [idx |-> idx, add_clbit |-> FALSE]]
        /\ UNCHANGED <<pmvars, text, parsed, sv>>

\* ------------------------------------------------------------- specifications

Init ==
    /\ indices = <<>>
    /\ params = <<>>
    /\ INDEX = 0
    /\ insts = <<>>
    /\ last = [op |-> "import", raised |-> FALSE]
    /\ circ = Circuit_init(NumQubits, NumQubits)
    /\ text = [s |-> <<>>, of |-> <<>>]
    /\ parsed = NoneV
    /\ sv = Holding(StateVector_init(RegisterBits(NumQubits),
                                     Scalar(Basis(NumQubits)), NoneV), TRUE).self
    /\ GATE_DICT = GATE_DICT_import

NextPM ==
    \/ \E q \in QubitInputs, a \in ArgInputs, i \in IdxInputs : NewGate(q, a, i)
    \/ \E q \in QubitInputs, i \in IdxInputs : NewGateRx(q, i)
    \/ \E q \in QubitInputs : NewMeasurement(q)
    \/ \E s \in SetInputs : PmapSet(s)
    \/ \E n \in 0..MaxPool : PmapInit(n)
    \/ \E k \in 0..MaxPool, v \in Values : PmapSetItem(k, v)
    \/ \E v \in Values : PmapAddParam(v)
    \/ \E a \in ArgInputs, i \in IdxInputs : PmapAdd(a, i)
    \/ \E a \in ArgInputs \ {NoneV}, i \in {NoneV, Scalar(0), List(<<0>>)} : PmapAddArg(a, i)
    \/ \E i \in IdxInputs : PmapLinkParam(i)
    \/ PmapAddEmpty

SpecPM == Init /\ [][NextPM]_vars

NextRT ==
    \/ \E q \in BitLists, c \in ConInputs, i \in {NoneV, Scalar(0)} :
           CircAddGate(GateX, q, c, NoneV, i)
    \/ \E q \in BitLists, c \in ConInputs, i \in {NoneV, Scalar(0)} :
           CircAddGate(GateRx, q, c, Scalar(1), i)
    \/ \E q \in BitLists, c \in ClbitInputs : CircAddMeasurement(q, c)
    \/ CircToString
    \/ CircFromString
    \/ CircAppend

SpecRT == Init /\ [][NextRT]_vars

NextSV ==
    \/ \E q \in QubitListInputs, a \in AmpInputs : SvSetQubits(q, a)
    \/ \E a \in AmpInputs : SvSet(a)
    \/ \E a \in AmpInputs \ {NoneV} : SvLoadState(a)
    \/ SvSaveSnapshot
    \/ \E u \in UnitaryInputs : SvApplyUnitary(u)
    \/ \E i \in 0..NumQubits, v \in ItemValues : SvSetItem(i, v)
    \/ \E st \in PrepareInputs : SvPrepare(st)
    \/ \E c \in MeasureCalls : SvMeasure(c)
    \/ \E c \in MeasureQubitCalls : SvMeasureQubit(c)

SpecSV == Init /\ [][NextSV]_vars

\* a circuit and its engine: the circuit grows by a qubit or a classical bit
\* between calls on the engine
NextCB ==
    \/ \E i \in AddQubitInputs, b \in BOOLEAN : CircAddQubit(i, b)
    \/ \E i \in AddQubitInputs : CircAddClbit(i)
    \/ \E q \in QubitListInputs, a \in AmpInputs : SvSetQubits(q, a)
    \/ \E a \in AmpInputs : SvSet(a)
    \/ SvSaveSnapshot
    \/ \E u \in UnitaryInputs : SvApplyUnitary(u)
    \/ \E c \in MeasureQubitCalls : SvMeasureQubit(c)

SpecCB == Init /\ [][NextCB]_vars

\* a circuit that is filled and run
NextRun ==
    \/ \E c \in GateCalls : NewGateNamed(c)
    \/ \E k \in 1..MaxCirc : CircAdd(k)
    \/ \E c \in MeasurementCalls : CircAddMeasurementUpTo(c.qubits, c.clbits, MaxRun)
    \/ \E k \in 1..MaxCirc : SvApplyGate(k)
    \/ CircRunShot
    \/ Circ2RunShot

SpecRun == Init /\ [][NextRun]_vars

\* ---------------------------------------------- gates that are built

GateU == <<"u">>
GateUpperU == <<"U">>
GateSc == <<"s", "c">>
GateW == <<"w">>
GateXY == <<"X", "Y">>
GateB == <<"B">>

\* the registrations explored
CustomCalls ==
    {[name |-> GateU, item |-> flip],
     [name |-> GateUpperU, item |-> flip],
     [name |-> GateSc, item |-> flip],
     [name |-> GateW, item |-> chain]}

\* Gate.add_custom_gate(name, item) / Circuit.add_custom_gate(name, item) /
\* StateVector.add_custom_gate(name, item)
AddCustomGate(c) ==
    /\ Cardinality(DOMAIN GATE_DICT) < Cardinality(DOMAIN GATE_DICT_import) + MaxCustom
    /\ GATE_DICT' = Gate_add_custom_gate(GATE_DICT, c.name, c.item)
    /\ last' = [op |-> "add_custom_gate", raised |-> FALSE, name |-> c.name,
                item |-> c.item]
    /\ UNCHANGED <<indices, params, INDEX, insts, rtvars, sv>>

\* the gates explored: name, qubits, con, arg, n
BuildCalls ==
    {[name |-> GateX, qubits |-> List(<<1>>), con |-> List(<<0>>), arg |-> NoneV, n |-> 1],
     [name |-> GateX, qubits |-> List(<<0>>), con |-> List(<<1>>), arg |-> NoneV, n |-> 1],
     [name |-> GateX, qubits |-> List(<<1, 2>>), con |-> List(<<0>>), arg |-> NoneV, n |-> 1],
     [name |-> GateU, qubits |-> List(<<0>>), con |-> NoneV, arg |-> Scalar(1), n |-> 1],
     [name |-> GateU, qubits |-> List(<<1>>), con |-> List(<<0>>), arg |-> Scalar(1), n |-> 1],
     [name |-> GateU, qubits |-> List(<<1, 2>>), con |-> List(<<0>>), arg |-> List(<<0, 1>>), n |-> 1],
     [name |-> GateUpperU, qubits |-> List(<<0>>), con |-> NoneV, arg |-> Scalar(1), n |-> 1],
     [name |-> GateSc, qubits |-> List(<<0>>), con |-> NoneV, arg |-> Scalar(1), n |-> 1],
     [name |-> GateSc, qubits |-> List(<<1>>), con |-> List(<<0>>), arg |-> Scalar(1), n |-> 1],
     [name |-> GateW, qubits |-> List(<<0, 1>>), con |-> NoneV, arg |-> Scalar(1), n |-> 2],
     [name |-> GateW, qubits |-> List(<<1, 0>>), con |-> NoneV, arg |-> List(<<1, 0>>), n |-> 2]}

\* Gate(name, qubits, con, arg, n=n)
NewGateOf(c) ==
    /\ Len(insts) < MaxCirc
    /\ Len(params) + NumArgs(c.qubits, c.arg) <= MaxPool
    /\ Constructed("Gate", Gate_init(c.name, c.qubits, c.con, c.arg, NoneV, c.n, 1, cls),
                   c.arg, NoneV)
    /\ UNCHANGED <<rtvars, sv>>

\* Gate.custom(name, func, qubits, arg=arg): add_custom_gate(name, func), then
\* the constructor
GateCustom(c, arg) ==
    /\ Len(insts) < MaxCirc
    /\ Len(params) + NumArgs(List(<<0>>), arg) <= MaxPool
    /\ Cardinality(DOMAIN GATE_DICT) < Cardinality(DOMAIN GATE_DICT_import) + MaxCustom
    /\ GATE_DICT' = Gate_add_custom_gate(GATE_DICT, c.name, c.item)
    /\ ConstructedPm("Gate.custom",
                     Gate_init(c.name, List(<<0>>), NoneV, arg, NoneV, 1, 1, cls),
                     arg, NoneV)
    /\ UNCHANGED <<rtvars, sv>>

\* Gate.xy(qubit1, qubit2, arg): Gate("XY", [qubit1, qubit2], arg=arg, n=2)
GateXy(qubit1, qubit2, arg) ==
    /\ Len(insts) < MaxCirc
    /\ Len(params) + 2 <= MaxPool
    /\ Constructed("Gate.xy",
                   Gate_init(GateXY, List(<<qubit1, qubit2>>), NoneV, arg, NoneV, 2, 1,
                             cls),
                   arg, NoneV)
    /\ UNCHANGED <<rtvars, sv>>

\* Circuit.xy(qubit1, qubit2, arg) / Circuit.b(qubit1, qubit2, arg):
\* qubits = self.qureg.list([qubit1, qubit2]); self.add(Gate(name, qubits,
\* arg=arg, n=2))
CircTwoQubit(op, name, qubit1, qubit2, arg) ==
    LET r == Gate_init(name, Register_list(circ.qubits, List(<<qubit1, qubit2>>)),
                       NoneV, arg, NoneV, 2, 1, cls)
    IN  /\ Len(insts) < MaxCirc
        /\ Len(circ.instructions) < MaxCirc
        /\ Len(params) + 2 <= MaxPool
        /\ Constructed(op, r, arg, NoneV)
        /\ circ' = IF r.raised THEN circ ELSE Circuit_add(circ, r.inst)
        /\ UNCHANGED <<text, parsed, sv>>

CircXy(qubit1, qubit2, arg) == CircTwoQubit("circ.xy", GateXY, qubit1, qubit2, arg)

CircB(qubit1, qubit2, arg) == CircTwoQubit("circ.b", GateB, qubit1, qubit2, arg)

\* State.p0 and State.p1: the projectors on |0> and |1>
P0 == <<<<1, 0>>, <<0, 0>>>>
P1 == <<<<0, 0>>, <<0, 1>>>>

\* a + b for two matrices
MatAdd(a, b) == [i \in 1..Len(a) |-> [j \in 1..Len(a[i]) |-> a[i][j] + b[i][j]]]

\* objects.Gate.single_control(register, con, qubit, array) for a register
\* of n qubits: arrs1[con] = p0; arrs2[con] = p1; arrs2[qubit] = array;
\* arr = kron(arrs1) + kron(arrs2). IndexError for a position past the list.
ObjGate_single_control_target_dropped(n, con, qubit, array) ==
    IF con >= n \/ qubit >= n THEN [raised |-> TRUE, arr |-> <<>>]
    ELSE LET arrs1 == [k \in 1..n |-> IF k = con + 1 THEN P0 ELSE Eye2]
             arrs2 == [k \in 1..n |-> IF k = con + 1 THEN P1 ELSE Eye2]
         IN  [raised |-> FALSE, arr |-> MatAdd(KronAll(arrs1), KronAll(arrs2))]

ObjGate_single_control(n, con, qubit, array) ==
    IF con >= n \/ qubit >= n THEN [raised |-> TRUE, arr |-> <<>>]
    ELSE LET arrs1 == [k \in 1..n |-> IF k = con + 1 THEN P0 ELSE Eye2]
             arrs2 == [k \in 1..n |->
                          IF k = qubit + 1 THEN array
                          ELSE IF k = con + 1 THEN P1 ELSE Eye2]
         IN  [raised |-> FALSE, arr |-> MatAdd(KronAll(arrs1), KronAll(arrs2))]

\* objects.Gate.single(register, qubit, array): arrs[qubit] = array;
\* kron(arrs)
ObjGate_single(n, qubit, array) ==
    IF qubit >= n THEN [raised |-> TRUE, arr |-> <<>>]
    ELSE [raised |-> FALSE,
          arr |-> KronAll([k \in 1..n |-> IF k = qubit + 1 THEN array ELSE Eye2])]

\* Gate.single(register, qubit, array) of objects.py
ObjSingle(n, qubit, array) ==
    LET r == ObjGate_single(n, qubit, array) IN
    /\ last' = [op |-> "single", raised |-> r.raised, n_qubits |-> n,
                qubit |-> qubit, array |-> array, arr |-> r.arr]
    /\ UNCHANGED <<pmvars, rtvars, sv>>

\* Gate.single_control(register, con, qubit, array) of objects.py
ObjSingleControl(n, con, qubit, array) ==
    LET r == ObjGate_single_control(n, con, qubit, array) IN
    /\ last' = [op |-> "single_control", raised |-> r.raised, n_qubits |-> n,
                con |-> con, qubit |-> qubit, array |-> array, arr |-> r.arr]
    /\ UNCHANGED <<pmvars, rtvars, sv>>

\* insts[k].build_matrix(n_qubits)
BuildMatrix(k, n_qubits) ==
    LET r == Gate_build_matrix(insts[k], n_qubits, pmap) IN
    /\ k \in 1..Len(insts)
    /\ insts[k].TYPE = "Gate"
    /\ last' = [op |-> "build_matrix", raised |-> r.raised, args |-> insts[k],
                n_qubits |-> n_qubits, arr |-> r.arr, calls |-> r.calls]
    /\ UNCHANGED <<pmvars, rtvars, sv>>

NextGate ==
    \/ \E c \in CustomCalls : AddCustomGate(c)
    \/ \E c \in BuildCalls : NewGateOf(c)
    \/ \E c \in CustomCalls, a \in {NoneV, Scalar(1)} : GateCustom(c, a)
    \/ \E a \in {Scalar(0), Scalar(1)} : GateXy(0, 1, a)
    \/ \E a \in {Scalar(0), Scalar(1)} : CircXy(0, 1, a)
    \/ \E a \in {Scalar(0), Scalar(1)} : CircB(1, 0, a)
    \/ \E k \in 1..MaxCirc, n \in 2..MaxQubits : BuildMatrix(k, n)

SpecGate == Init /\ [][NextGate]_vars

\* the gate objects of objects.py next to the gates of the circuit
NextObj ==
    \/ \E n \in 2..MaxQubits, q \in 0..MaxQubits, g \in {X2, Z2} :
          q <= n /\ ObjSingle(n, q, g)
    \/ \E n \in 2..MaxQubits, c \in 0..MaxQubits, q \in 0..MaxQubits, g \in {X2, Z2} :
          c <= n /\ q <= n /\ ObjSingleControl(n, c, q, g)
    \/ \E c \in {g \in GateCalls : g.name = GateX} : NewGateNamed(c)
    \/ \E k \in 1..MaxCirc, n \in 2..MaxQubits : BuildMatrix(k, n)

SpecObj == Init /\ [][NextObj]_vars

\* ------------------------------------------- the text format's delimiter

\* the delimiters explored
DelimInputs == {DefaultDelim, <<"|">>, STR_Sep}

\* text = circ.to_string(delim); delim and ref are history fields: the
\* delimiter that was passed, and circ.to_string() of the same circuit
CircToStringWith(delim) ==
    LET r == Circuit_to_string(circ, pmap, delim) IN
    /\ text' = IF r.raised THEN text
               ELSE [s |-> r.s, of |-> circ.instructions, delim |-> delim,
                     ref |-> Circuit_to_string(circ, pmap, DefaultDelim).s]
    /\ last' = [op |-> "to_string", raised |-> r.raised]
    /\ UNCHANGED <<pmvars, circ, parsed, sv>>

\* parsed = Circuit.from_string(text, delim), for a text that to_string(delim)
\* has returned
CircFromStringWith ==
    /\ text.s # <<>>
    /\ INDEX + Len(text.of) <= 2 * MaxCirc
    /\ FromStringDone(Circuit_from_string(text.s, text.delim, cls))
    /\ UNCHANGED <<circ, text, sv>>

NextDelim ==
    \/ \E q \in BitLists, c \in ConInputs : CircAddGate(GateX, q, c, NoneV, NoneV)
    \/ \E q \in BitLists : CircAddGate(GateRx, q, NoneV, Scalar(1), NoneV)
    \/ \E q \in BitLists : CircAddMeasurement(q, NoneV)
    \/ \E d \in DelimInputs : CircToStringWith(d)
    \/ CircFromStringWith

SpecDelim == Init /\ [][NextDelim]_vars

\* ------------------------------------------------------- claims C3 .. C8

\* the positions an instruction is linked to: the ones its constructor's
\* pmap.add recorded, a list (add_arg, link_param of a list) or one integer
\* (link_param of an int)
Linked(inst) ==
    IF inst.own.tag = "none" THEN <<>> ELSE inst.own.v

LinkedTo(inst, p) == \E k \in 1..Len(Linked(inst)) : Linked(inst)[k] = p

\* two different instructions are linked to position p
SharedPosition(p) ==
    \E i, j \in 1..Len(insts) : i # j /\ LinkedTo(insts[i], p) /\ LinkedTo(insts[j], p)

\* every position the instruction is linked to is a position of the pool
InPool(inst) == \A k \in 1..Len(Linked(inst)) : Linked(inst)[k] < Len(params)

\* the entry at the instruction's creation index is the list its constructor
\* recorded
ReadsOwnList(inst) ==
    /\ inst.own.tag = "list"
    /\ Instruction_argidx(inst, pmap) = [raised |-> FALSE, val |-> inst.own]

\* the new value the last call gave position p (set: values[p], setitem: value)
Written(p) ==
    IF last.op = "set" THEN p < Len(last.values)
    ELSE last.op = "setitem" /\ ~last.raised /\ last.key = p

NewValue(p) == IF last.op = "set" THEN last.values[p + 1] ELSE last.value

\* args of inst returns one value per linked position and, on every slot
\* linked to p, the value v
ArgsGive(inst, p, v) ==
    LET a == Instruction_args(inst, pmap) IN
    /\ ~a.raised
    /\ a.val.tag = "list"
    /\ Len(a.val.v) = Len(Linked(inst))
    /\ \A k \in 1..Len(Linked(inst)) : Linked(inst)[k] = p => a.val.v[k] = v

\* C3 as stated: after any set(values), or an item assignment at p, every
\* instruction linked to a shared position p gets the new value at p from args.
C3_SharedAfterAnySet ==
    last.op \in {"set", "setitem"} /\ ~last.raised =>
        \A p \in 0..MaxPool : \A i \in 1..Len(insts) :
            (SharedPosition(p) /\ LinkedTo(insts[i], p)
             /\ (last.op = "setitem" => last.key = p))
            => Written(p) /\ ArgsGive(insts[i], p, NewValue(p))

\* C3 with truncating sets left out: after set(values) or an item assignment
\* at p, every instruction linked to a shared position p, all of whose linked
\* positions lie inside the pool, gets the new value at p from args.
C3_SharedInsidePool ==
    last.op \in {"set", "setitem"} /\ ~last.raised =>
        \A p \in 0..MaxPool : \A i \in 1..Len(insts) :
            (SharedPosition(p) /\ LinkedTo(insts[i], p) /\ InPool(insts[i])
             /\ (last.op = "setitem" => last.key = p))
            => Written(p) /\ ArgsGive(insts[i], p, NewValue(p))

\* what is left of C3: an instruction linked to a shared position p that finds
\* at its creation index the list it recorded, with every position inside the
\* pool, gets the new value at p from args.
C3_SharedListEntries ==
    last.op \in {"set", "setitem"} /\ ~last.raised =>
        \A p \in 0..MaxPool : \A i \in 1..Len(insts) :
            (SharedPosition(p) /\ LinkedTo(insts[i], p) /\ InPool(insts[i])
             /\ ReadsOwnList(insts[i])
             /\ (last.op = "setitem" => last.key = p))
            => Written(p) /\ ArgsGive(insts[i], p, NewValue(p))

\* two instructions share a position, one of them by an integer link index,
\* and a set has written that position
C3_IntegerLink ==
    /\ last.op = "set"
    /\ \E p \in 0..MaxPool :
        /\ SharedPosition(p)
        /\ p < Len(last.values)
        /\ \E i \in 1..Len(insts) :
            LinkedTo(insts[i], p) /\ InPool(insts[i]) /\ insts[i].own.tag = "scalar"

\* the last call was a constructor that returned
Returned == last.op \in {"Gate", "Gate.rx", "Measurement"} /\ ~last.raised

\* ParameterMap.add has returned: inside a constructor, or called on the map
Added == Returned \/ (last.op = "pmap.add" /\ ~last.raised)

\* positions n, n + 1, ..., n + k - 1
Fresh(n, k) == [i \in 1..k |-> n + (i - 1)]

\* C4: add with a value and no link index appends each element of the value
\* to the pool and records exactly the new positions; add with neither records
\* None and leaves the pool alone; get of the new entry then returns the
\* values at the recorded positions, or None.
C4_AddAppendsAndRecords ==
    [][Added' /\ IsNone(last'.add_idx) =>
        LET a == last'.add_arg
            got == ParameterMap_get(pmap', Len(indices))
        IN  IF IsNone(a)
            THEN /\ params' = params
                 /\ indices' = Append(indices, NoneV)
                 /\ ~got.raised /\ IsNone(got.val)
            ELSE /\ params' = params \o a.v
                 /\ indices' = Append(indices, List(Fresh(Len(params), Len(a.v))))
                 /\ ~got.raised /\ got.val = List(a.v)
      ]_vars

\* a constructor handed a two-element value and no link index has returned
C4_Witness ==
    /\ Returned
    /\ IsNone(last.add_idx)
    /\ ~IsNone(last.add_arg)
    /\ Len(last.add_arg.v) = 2
    /\ last.pool_before > 0

\* the link index names positions the pool has
LinksExisting(idx, n) ==
    /\ ~IsNone(idx)
    /\ \A k \in 1..Len(idx.v) : idx.v[k] < n

\* C5: a constructor given a link index (argidx) naming existing positions
\* records those positions and leaves the pool's length and contents alone.
C5_LinkDoesNotAppend ==
    [][Returned' /\ LinksExisting(last'.add_idx, Len(params)) =>
        /\ params' = params
        /\ indices' = Append(indices, last'.add_idx)
      ]_vars

\* a constructor call has ended, by returning or by raising
Constructing == last.op \in {"Gate", "Gate.rx", "Measurement"}

\* the counter equals the number of entries, every instruction's own entry is
\* the one at its creation index, and creation indices grow in construction
\* order
Aligned(INDEX_, indices_, insts_) ==
    /\ INDEX_ = Len(indices_)
    /\ \A i \in 1..Len(insts_) :
        /\ insts_[i].idx < Len(indices_)
        /\ indices_[insts_[i].idx + 1] = insts_[i].own
    /\ \A i, j \in 1..Len(insts_) : i < j => insts_[i].idx < insts_[j].idx

\* C6: every construction, one that raises part-way included, keeps the
\* counter equal to the number of entries, every instruction's own entry at
\* its creation index, and the creation indices growing in construction order.
C6_CreationIndexAligned ==
    [][Constructing' /\ Aligned(INDEX, indices, insts)
         => Aligned(INDEX', indices', insts')]_vars

\* C7 as stated: no operation makes the pool shorter.
C7_PoolNeverShrinks == [][Len(params') >= Len(params)]_vars

\* C7 amended: the pool never gets shorter under add, add_param and item
\* assignment; set(values) leaves it with len(values) elements and init(n)
\* with n, whatever its length was.
C7_PoolLength ==
    [][/\ last'.op \notin {"set", "init"} => Len(params') >= Len(params)
       /\ last'.op = "set" => Len(params') = Len(last'.values)
       /\ last'.op = "init" => Len(params') = last'.n
      ]_vars

\* a set has made a pool that instructions are linked to shorter
C7_Witness ==
    /\ last.op = "set"
    /\ Len(params) < last.pool_before
    /\ Len(insts) > 0

\* C8: an entry, once recorded, keeps its positions and its length.
C8_EntriesImmutable ==
    [][/\ Len(indices') >= Len(indices)
       /\ \A k \in 1..Len(indices) : indices'[k] = indices[k]
      ]_vars

\* a pool write came after two entries were recorded, one of them a list
C8_Witness ==
    /\ last.op \in {"set", "init", "setitem"}
    /\ Len(indices) = 2
    /\ \E k \in 1..2 : indices[k].tag = "list" /\ Len(indices[k].v) = 2

\* ------------------------------------------------------- claims C1, C2

\* from_string has returned a circuit for the text of a non-empty circuit
RoundTripped == last.op = "from_string" /\ ~last.raised /\ Len(text.of) > 0

\* C1: from_string(c.to_string()) has as many instructions as c, and the i-th
\* has the name, the target-qubit indices and the control-qubit indices of
\* the i-th instruction of c.
C1_RoundTripNamesAndQubits ==
    RoundTripped =>
        /\ Len(parsed.instructions) = Len(text.of)
        /\ \A i \in 1..Len(text.of) :
            /\ parsed.instructions[i].name = text.of[i].name
            /\ Instruction_qu_indices(parsed.instructions[i])
                   = Instruction_qu_indices(text.of[i])
            /\ Instruction_con_indices(parsed.instructions[i])
                   = Instruction_con_indices(text.of[i])

\* C2: a Measurement that went through to_string and from_string has the
\* destination classical-bit indices of the original.
C2_RoundTripClbits ==
    RoundTripped =>
        \A i \in 1..Len(text.of) :
            text.of[i].TYPE = "Measurement" =>
                /\ i <= Len(parsed.instructions)
                /\ parsed.instructions[i].TYPE = "Measurement"
                /\ Instruction_cl_indices(parsed.instructions[i])
                       = Instruction_cl_indices(text.of[i])

\* ------------------------------------------------------ claims C9, C10

\* C9: whatever StateVector operations have run, and whether they returned or
\* raised, len(amp) is 2^n_qubits and equals the field n.
C9_AmpLengthInvariant ==
    /\ Len(sv.amp) = Pow2(sv.n_qubits)
    /\ Len(sv.amp) = sv.n

\* the vector a call of set / set_qubits validates, for n qubits
Supplied(amp, n) == IF IsNone(amp) THEN ZeroState(n) ELSE amp.v

\* the supplied vector is rejected for n qubits: wrong length, or norm not 1
Rejected(amp, n) ==
    \/ Len(Supplied(amp, n)) # Pow2(n)
    \/ ~NormIsOne(Supplied(amp, n), Den(amp))

\* C10: set / set_qubits raises exactly when the supplied vector has a length
\* other than 2^n or a norm other than 1, and a call that raises leaves amp,
\* qubits, n_qubits, n, basis and snapshots as they were before the call.
C10_InitFailsAtomically ==
    [][/\ last'.op = "sv.set" =>
            /\ last'.raised <=> Rejected(last'.args.amp, sv.n_qubits)
            /\ last'.raised => sv' = sv
       /\ last'.op = "sv.set_qubits" =>
            /\ last'.raised <=> Rejected(last'.args.amp, Len(last'.args.qubits))
            /\ last'.raised => sv' = sv]_vars

\* ------------------------------------------------------------- claim C11

\* C11: whenever a public StateVector operation has returned, the Euclidean
\* norm of amp is 1.
C11_NormInvariant == ~last.raised => NormIsOne(sv.amp, sv.den)

\* ------------------------------------------------------------- claim C12

\* a call of measure with arguments c on the engine s gets as far as its
\* probabilities: the basis is complete, the targets are qubits of the engine
MeasureComputes(s, c) ==
    /\ ~MeasureBasis(c.eigvals, c.eigvecs).raised
    /\ \A j \in 1..Len(c.qubits) : c.qubits[j] < s.n_qubits
    /\ Len(s.amp) = Pow2(s.n_qubits)

\* the probabilities that call computes, as multiples of 1 / s.den
ComputedProbs(s, c) ==
    MeasureProbs(s, MeasureProjections(s, c.qubits,
                                       MeasureBasis(c.eigvals, c.eigvecs).eigvecs))

\* the probabilities of that call lie in [0, 1] and sum to 1
ProbsConserved(s, c) ==
    /\ \A i \in 1..Pow2(Len(c.qubits)) :
           /\ ComputedProbs(s, c)[i] >= 0
           /\ ComputedProbs(s, c)[i] <= s.den
    /\ SumSeq(ComputedProbs(s, c)) = s.den

\* C12: a call of measure on a normalised state, for any list of target
\* qubits, computes probabilities that lie in [0, 1] and sum to 1.
C12_ProbabilityConservation ==
    [][(last'.op = "sv.measure" /\ NormIsOne(sv.amp, sv.den)
            /\ MeasureComputes(sv, last'.args)) =>
        ProbsConserved(sv, last'.args)]_vars

\* ------------------------------------------------------------- claim C13

\* the projection of the engine s that belongs to outcome number i of a call
\* of measure with arguments c
OutcomeProjection(s, c, i) ==
    MeasureProjections(s, c.qubits, MeasureBasis(c.eigvals, c.eigvecs).eigvecs)[i + 1]

\* t is s with one more snapshot, holding the vector of s
SnapshotOfAppended(s, t) ==
    /\ Len(t.snapshots) = Len(s.snapshots) + 1
    /\ SubSeq(t.snapshots, 1, Len(s.snapshots)) = s.snapshots
    /\ t.snapshots[Len(t.snapshots)].amp = s.amp
    /\ t.snapshots[Len(t.snapshots)].den = s.den

\* t holds the projection of s for outcome i of the call c, divided by its norm
CollapsedOnto(s, t, c, i) ==
    /\ t.amp = OutcomeProjection(s, c, i)
    /\ t.den = SumSq(OutcomeProjection(s, c, i))

\* a returned collapsing call l of measure took the engine from s to t
CollapseWithSnapshot(s, t, l) ==
    /\ CollapsedOnto(s, t, l.args, l.index)
    /\ IF l.args.snapshot THEN SnapshotOfAppended(s, t)
       ELSE t.snapshots = s.snapshots

\* C13: a call of measure with shadow=False that returns leaves amp equal to
\* the sampled outcome's projection divided by its norm; with snapshot=True it
\* has appended exactly one snapshot, holding the vector as it was before the
\* call, and with snapshot=False it has appended none.
C13_CollapseWithSnapshot ==
    [][(last'.op = "sv.measure" /\ ~last'.raised /\ ~last'.args.shadow) =>
        CollapseWithSnapshot(sv, sv', last')]_vars

\* a measurement with snapshot=True has collapsed a superposition: the
\* snapshot holds the superposition, amp the collapsed vector
C13_Witness ==
    /\ last.op = "sv.measure" /\ ~last.raised
    /\ ~last.args.shadow /\ last.args.snapshot
    /\ Len(sv.snapshots) = 1
    /\ sv.snapshots[1].den = 2
    /\ sv.den = 1

\* ------------------------------------------------------------- claim C14

\* no qubit is listed twice
Distinct(qubits) ==
    \A a, b \in 1..Len(qubits) : a # b => qubits[a] # qubits[b]

\* t.amp is s.amp restricted to the basis states in which every listed qubit
\* has its listed bit, divided by its norm
KeepsOutcome(s, t, qubits, bits) ==
    /\ t.amp = [i \in 1..Len(s.amp) |->
                   IF \A j \in 1..Len(qubits) :
                          BitOf(i - 1, qubits[j], s.n_qubits) = bits[j]
                   THEN s.amp[i] ELSE 0]
    /\ t.den = SumSq(t.amp)

\* the eigenvalues a measurement call with arguments c reports
EigenvaluesOf(c) == MeasureBasis(c.eigvals, c.eigvecs).eigvals

\* a returned call l of measure, from s to t: one eigenvalue per target, that
\* of the target's bit in the sampled outcome, and the vector collapsed onto
\* that outcome (left alone when shadow)
MeasureResultMatches(s, t, l) ==
    /\ l.result.tag = "list"
    /\ Len(l.result.v) = Len(l.args.qubits)
    /\ \A j \in 1..Len(l.args.qubits) :
           l.result.v[j] =
               EigenvaluesOf(l.args)[ResultBits(l.index, Len(l.args.qubits))[j] + 1]
    /\ IF l.args.shadow THEN t = s
       ELSE CollapsedOnto(s, t, l.args, l.index)
    /\ (~l.args.shadow /\ IsNone(l.args.eigvals) /\ Distinct(l.args.qubits)) =>
           KeepsOutcome(s, t, l.args.qubits, l.result.v)

\* a returned call l of measure_qubit, from s to t: a scalar, the eigenvalue of
\* the eigenstate the vector was collapsed onto
MeasureQubitResultMatches(s, t, l) ==
    /\ l.result.tag = "scalar"
    /\ l.index \in {0, 1}
    /\ l.result.v[1] = EigenvaluesOf(l.args)[l.index + 1]
    /\ IF l.args.shadow THEN t = s
       ELSE /\ t.amp = StateVector_project(s, l.args.qubit,
                           get_projector(MeasureBasis(l.args.eigvals,
                               l.args.eigvecs).eigvecs[l.index + 1])).v
            /\ t.den = SumSq(t.amp)
    /\ (~l.args.shadow /\ IsNone(l.args.eigvals)) =>
           KeepsOutcome(s, t, <<l.args.qubit>>, l.result.v)

\* C14: measure on k targets returns k values, the j-th being the eigenvalue
\* of the j-th bit of the sampled outcome, and the vector after the call is
\* the projection of that same outcome; measure_qubit returns one scalar, the
\* eigenvalue of the eigenstate it collapsed onto.
C14_ResultMatchesCollapse ==
    [][/\ (last'.op = "sv.measure" /\ ~last'.raised) =>
              MeasureResultMatches(sv, sv', last')
       /\ (last'.op = "sv.measure_qubit" /\ ~last'.raised) =>
              MeasureQubitResultMatches(sv, sv', last')]_vars

\* measure([q1, q0]) on the uniform superposition of two qubits has returned
\* [1, 0] and left the basis state in which q1 = 1 and q0 = 0
C14_Witness ==
    /\ last.op = "sv.measure" /\ ~last.raised
    /\ last.args.qubits = <<1, 0>>
    /\ last.result = List(<<1, 0>>)
    /\ ~last.args.shadow /\ last.args.snapshot
    /\ Len(sv.snapshots) = 1
    /\ sv.snapshots[1].den = 4
    /\ sv.amp = <<0, 1, 0, 0>>

\* ------------------------------------------------------------- claim C15

\* exactly one of the two halves of a custom basis was passed
IncompleteBasis(c) == IsNone(c.eigvals) # IsNone(c.eigvecs)

\* C15: measure and measure_qubit raise, leaving amp and snapshots unchanged,
\* when eigenvalues are given without eigenvectors and also when eigenvectors
\* are given without eigenvalues.
C15_IncompleteBasisRaises ==
    [][(last'.op \in {"sv.measure", "sv.measure_qubit"}
            /\ IncompleteBasis(last'.args)) =>
           (last'.raised /\ sv'.amp = sv.amp /\ sv'.den = sv.den
               /\ sv'.snapshots = sv.snapshots)]_vars

\* the half of C15 the code implements: eigenvalues without eigenvectors
C15_EigvalsAloneRaise ==
    [][(last'.op \in {"sv.measure", "sv.measure_qubit"}
            /\ ~IsNone(last'.args.eigvals) /\ IsNone(last'.args.eigvecs)) =>
           (last'.raised /\ sv' = sv)]_vars

\* ------------------------------------------------------------- claim C16

\* what a snapshot stores
Stored(snap) == <<snap.qubits, snap.basis, snap.amp, snap.den>>

\* C16: save_snapshot appends exactly one entry and leaves the current vector
\* unchanged, and what an already-taken snapshot stores (qubits, basis,
\* vector) is never changed by a later operation on the engine or the circuit.
C16_SnapshotsIndependent ==
    [][/\ (last'.op = "sv.save_snapshot" /\ ~last'.raised) =>
              (/\ Len(sv'.snapshots) = Len(sv.snapshots) + 1
               /\ sv'.amp = sv.amp /\ sv'.den = sv.den)
       /\ Len(sv'.snapshots) >= Len(sv.snapshots)
       /\ \A k \in 1..Len(sv.snapshots) :
              Stored(sv'.snapshots[k]) = Stored(sv.snapshots[k])]_vars

\* the same with the circuit left alone: operations on the engine only
C16_EngineKeepsSnapshots ==
    [][last'.op # "add_qubit" =>
          (/\ (last'.op = "sv.save_snapshot" /\ ~last'.raised) =>
                  (/\ Len(sv'.snapshots) = Len(sv.snapshots) + 1
                   /\ sv'.amp = sv.amp /\ sv'.den = sv.den)
           /\ Len(sv'.snapshots) >= Len(sv.snapshots)
           /\ \A k \in 1..Len(sv.snapshots) :
                  sv'.snapshots[k] = sv.snapshots[k])]_vars

\* ------------------------------------------------------------- claim C17

\* C17: run_shot first puts the engine into the all-zero basis state and then
\* goes through the instructions, so the first instruction of every shot sees
\* |0...0>, and run_shot completes, returning one vector of n_clbits entries.
C17_ShotStartsFresh ==
    last.op = "run_shot" =>
        /\ ~last.raised
        /\ last.start = Vec(ZeroState(circ.n_qubits), 1)
        /\ last.data.tag = "list"
        /\ Len(last.data.v) = circ.n_clbits

\* ------------------------------------------------------------- claim C18

ShotOps == {"run_shot", "run_shot2"}

\* the data vector that the measured values of a log give, written in order
RECURSIVE DataOf(_, _)
DataOf(log, data) ==
    IF Len(log) = 0 THEN data
    ELSE DataOf(Tail(log), WriteData(data, log[1].clbits, log[1].values).data)

\* every instruction of the shot's circuit is a measurement or an X gate
\* without controls
MeasurementsAndX(l) ==
    \A k \in 1..Len(l.of) :
        \/ l.of[k].TYPE = "Measurement"
        \/ l.of[k].TYPE = "Gate" /\ l.of[k].name = GateX /\ IsNone(l.of[k].con)

\* the shot l went through every instruction and measured, for each, one
\* eigenvalue of the computational basis per target
MeasuredAll(l) ==
    /\ ~l.raised
    /\ Len(l.log) = Len(l.of)
    /\ \A k \in 1..Len(l.of) :
           /\ l.log[k].idx = l.of[k].idx
           /\ l.of[k].TYPE = "Measurement" =>
                  Len(l.log[k].values) = Len(l.of[k].qubits.v)
           /\ \A j \in 1..Len(l.log[k].values) : l.log[k].values[j] \in {0, 1}

\* C18: a shot carries out each measurement instruction by measuring in the
\* instruction's eigenbasis and writes the returned eigenvalues to the output
\* vector at the instruction's classical bits; a bit written by an earlier
\* measurement and not targeted by a later one still holds the earlier value
\* when run_shot returns.
C18_MeasurementsWritten ==
    (last.op \in ShotOps /\ MeasurementsAndX(last)) =>
        /\ MeasuredAll(last)
        /\ last.data = List(DataOf(last.log, Repeat(0, circ.n_clbits)))

\* the same for the shots of qsim2 alone
C18_Qsim2MeasurementsWritten ==
    (last.op = "run_shot2" /\ MeasurementsAndX(last)) =>
        /\ MeasuredAll(last)
        /\ last.data = List(DataOf(last.log, Repeat(0, circ.n_clbits)))

\* ------------------------------------------------------------- claim C19

\* the creation indices never go down along the sequence
InCreationOrder(seq) ==
    \A i, j \in 1..Len(seq) : i < j => seq[i].idx <= seq[j].idx

\* C19: the order of Circuit.instructions is the order of creation, however
\* the list was filled (add, add_gate, add_measurement, append, from_string),
\* and a shot carries the instructions out in that order.
C19_CreationOrder ==
    /\ InCreationOrder(circ.instructions)
    /\ parsed # NoneV => InCreationOrder(parsed.instructions)
    /\ (last.op \in ShotOps /\ ~last.raised) =>
           (/\ InCreationOrder(last.log)
            /\ Len(last.log) = Len(last.of))

\* a shot that returns carries the instructions out in the order of the list
C19_ListOrder ==
    (last.op \in ShotOps /\ ~last.raised) =>
        /\ Len(last.log) = Len(last.of)
        /\ \A k \in 1..Len(last.log) : last.log[k].idx = last.of[k].idx

\* ------------------------------------------------------------- claim C20

\* the name a gate was constructed with: the constructor has put one "c" per
\* control qubit in front of it
GivenName(inst) ==
    IF IsNone(inst.con) THEN inst.name
    ELSE SubSeq(inst.name, Len(inst.con.v) + 1, Len(inst.name))

\* the registry has no entry for the gate's name
UnknownName(inst) == ~(Lower(GivenName(inst)) \in DOMAIN GATE_DICT)

\* the call l of apply_gate, from s to t, has raised and changed neither the
\* vector nor the snapshot log
ApplyGateFailed(s, t, l) ==
    /\ l.raised
    /\ t.amp = s.amp /\ t.den = s.den
    /\ t.snapshots = s.snapshots

\* C20: apply_gate of a Gate whose name is not in the registry raises in
\* build_matrix and leaves the vector and the snapshot log unchanged, while
\* constructing the Gate does not raise.
C20_UnknownGateFails ==
    [][/\ (last'.op = "sv.apply_gate" /\ UnknownName(last'.args)) =>
              ApplyGateFailed(sv, sv', last')
       /\ last'.op = "Gate" => ~last'.raised]_vars

\* the same for gates without control qubits
C20_PlainUnknownGateFails ==
    [][/\ (last'.op = "sv.apply_gate" /\ UnknownName(last'.args)
              /\ IsNone(last'.args.con)) =>
              ApplyGateFailed(sv, sv', last')
       /\ last'.op = "Gate" => ~last'.raised]_vars

\* ------------------------------------------------------------- claim C21

\* a build_matrix call has ended
Built == last.op = "build_matrix"

\* the gate has no control qubits
Uncontrolled(inst) == IsNone(inst.con) \/ Len(inst.con.v) = 0

\* a gate of one-qubit factors whose targets the register has and whose
\* arguments, if any, are one per target
PlainGate(inst, n_qubits) ==
    /\ Uncontrolled(inst)
    /\ inst.size = 1
    /\ ~IsNone(inst.qubits)
    /\ \A k \in 1..Len(inst.qubits.v) : inst.qubits.v[k] \in 0..(n_qubits - 1)
    /\ \A k \in 1..Len(inst.qubits.v) : ~Instruction_get_arg(inst, pmap, k - 1).raised

\* the tensor product of func(arg) on every target
PlainMatrix(inst, func, n_qubits) ==
    single_gate(inst.qubits.v,
                [k \in 1..Len(inst.qubits.v) |->
                    Call1(func, Instruction_get_arg(inst, pmap, k - 1).val).arr],
                n_qubits).arr

\* C21: when a gate function f of one argument is in the registry under the
\* name a plain gate was constructed with, build_matrix of that gate does not
\* raise and returns the matrix made from f.
C21_RegisteredNameResolves ==
    (/\ Built
     /\ PlainGate(last.args, last.n_qubits)
     /\ last.args.name \in DOMAIN GATE_DICT
     /\ GATE_DICT[last.args.name].sig = 1)
    => /\ ~last.raised
       /\ last.arr = PlainMatrix(last.args, GATE_DICT[last.args.name], last.n_qubits)

\* the same for names without uppercase letters
C21_LowercaseNameResolves ==
    (/\ Built
     /\ PlainGate(last.args, last.n_qubits)
     /\ last.args.name \in DOMAIN GATE_DICT
     /\ last.args.name = Lower(last.args.name)
     /\ GATE_DICT[last.args.name].sig = 1)
    => /\ ~last.raised
       /\ last.arr = PlainMatrix(last.args, GATE_DICT[last.args.name], last.n_qubits)

\* ------------------------------------------------------------- claim C22

\* a gate with control qubits and one target, all in the register and the
\* target not among the controls
ControlledOnce(inst, n_qubits) ==
    /\ ~Uncontrolled(inst)
    /\ ~IsNone(inst.qubits)
    /\ Len(inst.qubits.v) = 1
    /\ inst.qubits.v[1] \in 0..(n_qubits - 1)
    /\ \A k \in 1..Len(inst.con.v) :
          inst.con.v[k] \in 0..(n_qubits - 1) /\ inst.con.v[k] # inst.qubits.v[1]
    /\ ~Instruction_get_arg(inst, pmap, 0).raised

\* the controlled operator of func(arg) on the gate's target
ControlledMatrix(inst, func, n_qubits) ==
    cgate(inst.con.v, inst.qubits.v[1],
          Call1(func, Instruction_get_arg(inst, pmap, 0).val).arr,
          n_qubits, inst.con_trigger).arr

\* the one-argument function an uncontrolled gate of the name resolves
BaseResolves(name) ==
    /\ ~Gate_get_gatefunc(name).raised
    /\ Gate_get_gatefunc(name).func.sig = 1

\* C22: build_matrix of a gate constructed with control qubits and the name N
\* uses the function that an uncontrolled gate N resolves, whatever letters N
\* has: it does not raise and returns the controlled operator of that
\* function.
C22_PrefixKeepsBaseFunction ==
    (/\ Built
     /\ ControlledOnce(last.args, last.n_qubits)
     /\ BaseResolves(GivenName(last.args)))
    => /\ ~last.raised
       /\ last.arr = ControlledMatrix(last.args,
                         Gate_get_gatefunc(GivenName(last.args)).func, last.n_qubits)

\* the same for names without the letter "c"
C22_PrefixKeepsBaseFunctionNoC ==
    (/\ Built
     /\ ControlledOnce(last.args, last.n_qubits)
     /\ BaseResolves(GivenName(last.args))
     /\ \A i \in 1..Len(GivenName(last.args)) : GivenName(last.args)[i] # "c")
    => /\ ~last.raised
       /\ last.arr = ControlledMatrix(last.args,
                         Gate_get_gatefunc(GivenName(last.args)).func, last.n_qubits)

\* ------------------------------------------------------------- claim C23

\* the basis vectors of n_qubits qubits
BasisVectors(n_qubits) ==
    {[i \in 1..Pow2(n_qubits) |-> IF i = b THEN 1 ELSE 0] : b \in 1..Pow2(n_qubits)}

\* the full operator of the gate's i-th target, with the i-th argument
TargetOperator(inst, func, n_qubits, i) ==
    Call3(func, inst.qubits.v[i], n_qubits,
          Instruction_get_arg(inst, pmap, i - 1).val).arr

\* v after the gates of the targets order[j], order[j + 1], ... one after
\* the other
RECURSIVE AppliedInOrder(_, _, _, _, _, _)
AppliedInOrder(inst, func, n_qubits, order, j, v) ==
    IF j > Len(order) THEN v
    ELSE AppliedInOrder(inst, func, n_qubits, order, j + 1,
                        MatVec(TargetOperator(inst, func, n_qubits, order[j]), v))

\* a gate of size > 1 without control qubits, built without raising
NativeBuilt ==
    /\ Built
    /\ ~last.raised
    /\ Uncontrolled(last.args)
    /\ last.args.size > 1

\* C23: the operator build_matrix returns for a gate of size > 1 acts on
\* every basis vector as the gate of the first target, then the gate of the
\* second target, and so on to the last, each with its own argument.
C23_FirstTargetFirst ==
    NativeBuilt =>
        LET inst == last.args
            func == Gate_get_gatefunc(inst.name).func
        IN  \A v \in BasisVectors(last.n_qubits) :
                MatVec(last.arr, v)
                    = AppliedInOrder(inst, func, last.n_qubits,
                          [j \in 1..Len(inst.qubits.v) |-> j], 1, v)

\* what the operator does: the gate of the last target first, the gate of the
\* first target last
C23_LastTargetFirst ==
    NativeBuilt =>
        LET inst == last.args
            func == Gate_get_gatefunc(inst.name).func
        IN  \A v \in BasisVectors(last.n_qubits) :
                MatVec(last.arr, v)
                    = AppliedInOrder(inst, func, last.n_qubits,
                          [j \in 1..Len(inst.qubits.v) |->
                              Len(inst.qubits.v) + 1 - j], 1, v)

\* ------------------------------------------------------------- claim C24

\* a two-qubit native gate has been created by Gate.xy, Circuit.xy or
\* Circuit.b
TwoQubitCreated == last.op \in {"Gate.xy", "circ.xy", "circ.b"} /\ ~last.raised

\* build_matrix of a two-qubit native gate has ended
TwoQubitBuilt ==
    /\ Built
    /\ Uncontrolled(last.args)
    /\ last.args.name \in {GateXY, GateB}
    /\ Len(last.args.qubits.v) = 2

\* C24: a gate created by Gate.xy, Circuit.xy or Circuit.b with one argument
\* takes one position of the pool, and its build_matrix calls the registered
\* function once, with the list of both target indices and that argument.
C24_OneBlockOneArgument ==
    /\ TwoQubitCreated => Len(params) = last.pool_before + 1
    /\ TwoQubitBuilt =>
          last.calls = <<<<List(last.args.qubits.v), last.n_qubits,
                           Instruction_get_arg(last.args, pmap, 0).val>>>>

\* what happens: the argument is stored once per qubit, and the function is
\* called with one index at a time, the first call with the first index alone
C24_OneCallPerTarget ==
    /\ TwoQubitCreated =>
          /\ Len(params) = last.pool_before + 2
          /\ params[Len(params)] = last.arg.v[1]
          /\ params[Len(params) - 1] = last.arg.v[1]
    /\ TwoQubitBuilt =>
          /\ Len(last.calls) >= 1
          /\ \A i \in 1..Len(last.calls) :
                last.calls[i] = <<Scalar(last.args.qubits.v[i]), last.n_qubits,
                                  Instruction_get_arg(last.args, pmap, i - 1).val>>

\* ------------------------------------------------------------- claim C29

\* a gate with control qubits and several distinct targets, all in the
\* register, no target among the controls, and one argument per target
ControlledMany(inst, n_qubits) ==
    /\ ~Uncontrolled(inst)
    /\ ~IsNone(inst.qubits)
    /\ Len(inst.qubits.v) > 1
    /\ Distinct(inst.qubits.v)
    /\ \A k \in 1..Len(inst.qubits.v) :
          /\ inst.qubits.v[k] \in 0..(n_qubits - 1)
          /\ ~Instruction_get_arg(inst, pmap, k - 1).raised
          /\ \A j \in 1..Len(inst.con.v) : inst.con.v[j] # inst.qubits.v[k]
    /\ \A j \in 1..Len(inst.con.v) : inst.con.v[j] \in 0..(n_qubits - 1)

\* func(arg_i) on every target i for the basis states in which every control
\* qubit has the trigger value, the identity for the rest
ControlledOnAll(inst, func, n_qubits) ==
    LET full == PlainMatrix(inst, func, n_qubits) IN
    [r \in 1..Pow2(n_qubits) |-> [c \in 1..Pow2(n_qubits) |->
        IF \A k \in 1..Len(inst.con.v) :
              BitOf(c - 1, inst.con.v[k], n_qubits) = inst.con_trigger
        THEN full[r][c]
        ELSE IF r = c THEN 1 ELSE 0]]

\* the base name has no "c" and resolves to a function of one argument
BaseResolvesNoC(name) ==
    /\ BaseResolves(name)
    /\ \A i \in 1..Len(name) : name[i] # "c"

\* C29: build_matrix of a gate with control qubits and several targets
\* returns the operator that applies the base gate to every target, the i-th
\* with the i-th argument, when the controls are triggered.
C29_AllTargetsControlled ==
    (/\ Built
     /\ ControlledMany(last.args, last.n_qubits)
     /\ BaseResolvesNoC(GivenName(last.args)))
    => /\ ~last.raised
       /\ last.arr = ControlledOnAll(last.args,
                         Gate_get_gatefunc(GivenName(last.args)).func, last.n_qubits)

\* what is built: the base gate on the first target only, with the first
\* argument
C29_FirstTargetOnly ==
    (/\ Built
     /\ ControlledMany(last.args, last.n_qubits)
     /\ BaseResolvesNoC(GivenName(last.args)))
    => /\ ~last.raised
       /\ last.arr = ControlledMatrix(last.args,
                         Gate_get_gatefunc(GivenName(last.args)).func, last.n_qubits)

\* ------------------------------------------------------------- claim C25

\* the b-th basis vector of n_qubits qubits, b counted from 0
BasisVector(b, n_qubits) == [i \in 1..Pow2(n_qubits) |-> IF i = b + 1 THEN 1 ELSE 0]

\* arr leaves every basis state whose control bit is 0 as it is and acts on
\* every basis state whose control bit is 1 as gate on the target alone
ActsControlled(arr, con, target, gate, n_qubits) ==
    \A b \in 0..(Pow2(n_qubits) - 1) :
        MatVec(arr, BasisVector(b, n_qubits))
            = IF BitOf(b, con, n_qubits) = 0
              THEN BasisVector(b, n_qubits)
              ELSE MatVec(ObjGate_single(n_qubits, target, gate).arr,
                          BasisVector(b, n_qubits))

\* single_control has been called with a control and a target that the
\* register has and that differ
SingleControlCalled ==
    /\ last.op = "single_control"
    /\ last.con < last.n_qubits /\ last.qubit < last.n_qubits
    /\ last.con # last.qubit

\* build_matrix of a gate with one control qubit, triggered by 1, and one
\* other target has ended
OneControlBuilt ==
    /\ Built
    /\ ControlledOnce(last.args, last.n_qubits)
    /\ Len(last.args.con.v) = 1
    /\ last.args.con_trigger = 1
    /\ BaseResolvesNoC(GivenName(last.args))

\* C25: for distinct control and target the controlled operator, as built by
\* single_control and by build_matrix, leaves every basis state with control
\* bit 0 unchanged and acts as the gate on the target of every basis state
\* with control bit 1; controlled-X with control 0 and target 1 on two qubits
\* sends |10> to |11> and |00> to |00>.
C25_ControlledOperator ==
    /\ SingleControlCalled =>
          /\ ~last.raised
          /\ ActsControlled(last.arr, last.con, last.qubit, last.array, last.n_qubits)
          /\ (last.n_qubits = 2 /\ last.con = 0 /\ last.qubit = 1 /\ last.array = X2) =>
                /\ MatVec(last.arr, <<0, 0, 1, 0>>) = <<0, 0, 0, 1>>
                /\ MatVec(last.arr, <<1, 0, 0, 0>>) = <<1, 0, 0, 0>>
    /\ OneControlBuilt =>
          /\ ~last.raised
          /\ ActsControlled(last.arr, last.args.con.v[1], last.args.qubits.v[1],
                Call1(Gate_get_gatefunc(GivenName(last.args)).func,
                      Instruction_get_arg(last.args, pmap, 0).val).arr,
                last.n_qubits)
          /\ (last.n_qubits = 2 /\ last.args.con.v[1] = 0 /\ last.args.qubits.v[1] = 1
                  /\ GivenName(last.args) = GateX) =>
                /\ MatVec(last.arr, <<0, 0, 1, 0>>) = <<0, 0, 0, 1>>
                /\ MatVec(last.arr, <<1, 0, 0, 0>>) = <<1, 0, 0, 0>>

\* single_control has built controlled-X with control 0 and target 1 on two
\* qubits
C25_Witness ==
    /\ SingleControlCalled
    /\ ~last.raised
    /\ last.n_qubits = 2 /\ last.con = 0 /\ last.qubit = 1 /\ last.array = X2
    /\ last.arr = CX4

\* ------------------------------------------------------------- claim C28

\* the probability, as a multiple of 1 / den, that the engine s gives to the
\* outcome the returned call l of measure has selected
MeasureSelectedProb(s, l) == Dot(s.amp, OutcomeProjection(s, l.args, l.index))

\* the same for a returned call l of measure_qubit
MeasureQubitSelectedProb(s, l) ==
    Dot(s.amp,
        StateVector_project(s, l.args.qubit,
            get_projector(MeasureBasis(l.args.eigvals,
                                       l.args.eigvecs).eigvecs[l.index + 1])).v)

\* the call l of measure, from the normalized engine s to t, selected an
\* outcome of positive probability and left no vector divided by zero
MeasurePossible(s, t, l) ==
    NormIsOne(s.amp, s.den) => (MeasureSelectedProb(s, l) > 0 /\ t.den > 0)

MeasureQubitPossible(s, t, l) ==
    NormIsOne(s.amp, s.den) => (MeasureQubitSelectedProb(s, l) > 0 /\ t.den > 0)

\* C28: on a normalized state every returned measure and measure_qubit has
\* selected an outcome whose computed probability is positive, whatever the
\* random source returned, so the vector after the call is not the result of
\* a division by a zero norm.
C28_NoImpossibleOutcome ==
    [][/\ (last'.op = "sv.measure" /\ ~last'.raised) =>
              MeasurePossible(sv, sv', last')
       /\ (last'.op = "sv.measure_qubit" /\ ~last'.raised) =>
              MeasureQubitPossible(sv, sv', last')]_vars

\* the same for measure alone
C28_MeasureNoImpossibleOutcome ==
    [][(last'.op = "sv.measure" /\ ~last'.raised) =>
           MeasurePossible(sv, sv', last')]_vars

\* ------------------------------------------------------------- claim C26

\* the call l, from the engine s to t, has left the vector and the snapshot
\* log as they were
EngineUntouched(s, t) ==
    /\ t.amp = s.amp /\ t.den = s.den
    /\ t.snapshots = s.snapshots

\* the value a returned call l of measure reports is one eigenvalue per target
ReportsEigenvalues(l) ==
    /\ l.result.tag = "list"
    /\ Len(l.result.v) = Len(l.args.qubits)
    /\ \A j \in 1..Len(l.result.v) :
          \E e \in 1..2 : l.result.v[j] = EigenvaluesOf(l.args)[e]

\* the value a returned call l of measure_qubit reports is an eigenvalue
ReportsEigenvalue(l) ==
    /\ l.result.tag = "scalar"
    /\ \E e \in 1..2 : l.result.v[1] = EigenvaluesOf(l.args)[e]

\* C26: measure and measure_qubit called with shadow=True leave the amplitude
\* vector and the snapshot log exactly as they were, whatever the snapshot
\* flag is, and when they return they return eigenvalues.
C26_ShadowReadOnly ==
    [][/\ (last'.op = "sv.measure" /\ last'.args.shadow) =>
              /\ EngineUntouched(sv, sv')
              /\ ~last'.raised => ReportsEigenvalues(last')
       /\ (last'.op = "sv.measure_qubit" /\ last'.args.shadow) =>
              /\ EngineUntouched(sv, sv')
              /\ ~last'.raised => ReportsEigenvalue(last')]_vars

\* measure([q0, q1], shadow=True, snapshot=True) has returned [1, 1] on a
\* vector that is still a superposition, with no snapshot taken
C26_Witness ==
    /\ last.op = "sv.measure" /\ ~last.raised
    /\ last.args.shadow /\ last.args.snapshot
    /\ last.result = List(<<1, 1>>)
    /\ Cardinality({i \in 1..Len(sv.amp) : sv.amp[i] # 0}) > 1
    /\ sv.snapshots = <<>>

\* ------------------------------------------------------------- claim C27

\* the circuits a and b have the same header and the same instructions
SameCircuit(a, b) ==
    /\ a.n_qubits = b.n_qubits
    /\ a.n_clbits = b.n_clbits
    /\ a.instructions = b.instructions

\* from_string of the text t with its delimiter, on the class state st, has
\* ended as l with the circuit c: it returned what from_string of the
\* default-delimited text of the same circuit returns on that state
AsWithDefault(t, st, l, c) ==
    LET e == Circuit_from_string(t.ref, DefaultDelim, st) IN
    ~e.raised => (~l.raised /\ SameCircuit(c, e.self))

\* C27: for every delimiter d, from_string(c.to_string(d), d) succeeds and
\* gives the qubit and classical-bit counts and the instruction sequence that
\* from_string(c.to_string()) gives.
C27_AnyDelimiterRoundTrip ==
    [][last'.op = "from_string" => AsWithDefault(text, cls, last', parsed')]_vars

\* the same for the default delimiter and for circuits without instructions
C27_HeaderOnlyRoundTrip ==
    [][(last'.op = "from_string"
           /\ (text.delim = DefaultDelim \/ text.of = <<>>)) =>
       AsWithDefault(text, cls, last', parsed')]_vars

====
